---- MODULE Spec2Model ----
(***************************************************************************)
(* Model of the dynamic memory manager of lab-3-memory/src/memmgr.c: an    *)
(* implicit free list with boundary tags, three placement policies, block  *)
(* splitting, immediate coalescing and demand-driven heap extension.       *)
(*                                                                         *)
(* Memory is modelled word by word: mem maps the byte address of every     *)
(* 8-byte word that has been written to the value it holds, whether the    *)
(* word is a boundary tag or payload data.  Addresses are byte addresses.  *)
(* Stale words (old tags inside merged blocks, old payload) stay in mem,   *)
(* as they do in the real heap.                                            *)
(***************************************************************************)
EXTENDS Integers, Sequences, FiniteSets, TLC

\* ------------------------------------------------------------------------
\* Program constants (memmgr.c macros)
\* ------------------------------------------------------------------------
TYPE_SIZE == 8

ALLOC == 1

FREE == 0

CHUNKSIZE == 4096

BS == 32

NULL == 0

\* ------------------------------------------------------------------------
\* Bounds of the model
\* ------------------------------------------------------------------------
\* how many chunks the region provider grants before it refuses to grow
MaxChunks == 2

\* how many calls one run makes after mm_init
MaxOps == 4

\* ... and in the deeper runs that look for the late effects of a call
MaxOpsDeep == 5

\* how many bytes the caller stores into a payload, at most
StoreMax == 80

\* how many blocks the heaps have that the best-fit search alone is run on
MaxBlocks == 3

\* how many calls a scripted run makes after mm_init
MaxScript == 4

\* ------------------------------------------------------------------------
\* Region provider (dataseg module; consumed interface of the spec, s.6)
\* ------------------------------------------------------------------------
\* address of the region the provider hands out (page aligned)
DsBase == 8192

\* page size the provider reports
DsPageSize == 4096

\* grow(n): the provider moves its break by n and returns the previous
\* break, or refuses (-1) when the region would exceed its limit
ds_sbrk(d, n) ==
  IF d.brk + n > d.limit
  THEN [d |-> d, ret |-> -1]
  ELSE [d |-> [d EXCEPT !.brk = d.brk + n], ret |-> d.brk]

\* ------------------------------------------------------------------------
\* Layout encoder (macros)
\* ------------------------------------------------------------------------
\* size | status, for a status of 0 or 1
PACK(size, status) ==
  IF size % 2 = 1 THEN size ELSE size + status

SIZE(v) == v - (v % 8)

STATUS(v) == v % 8

GET(m, p) == m[p]

GET_SIZE(m, p) == SIZE(GET(m, p))

GET_STATUS(m, p) == STATUS(GET(m, p))

PUT(m, p, val) ==
  IF p \in DOMAIN m THEN [m EXCEPT ![p] = val] ELSE (p :> val) @@ m

PREV_PTR(p) == p - TYPE_SIZE

NEXT_PTR(p) == p + TYPE_SIZE

HDRP(bp) == PREV_PTR(bp)

FTRP(m, bp) == HDRP(bp) + GET_SIZE(m, HDRP(bp)) - TYPE_SIZE

PREV_BLK_PTR(m, bp) == bp - GET_SIZE(m, PREV_PTR(HDRP(bp)))

NEXT_BLK_PTR(m, bp) == bp + GET_SIZE(m, HDRP(bp))

\* ------------------------------------------------------------------------
\* State
\* ------------------------------------------------------------------------
VARIABLES
  ds,              \* region provider: [start, brk, pagesize, limit]
  mem,             \* written words of the data segment: address -> value
  ds_heap_start,   \* globals of memmgr.c
  ds_heap_brk,
  heap_start,
  heap_end,
  PAGESIZE,
  get_free_block,  \* "NULL", "ff", "nf" or "bf"
  mm_initialized,
  mm_loglevel,
  nf_ptr,
  nf,
  run,             \* "running", or how the process ended
  live,            \* payload addresses the caller holds and has not released
  call,            \* the last completed call: operation, arguments, result
  cnt,             \* calls made so far: [init, ops]
  server_ctx,      \* order server: the fields of struct mcdonalds_ctx
  node,            \* order server: the Node of each order
  client,          \* order server: where each serve_client thread is
  kitchen          \* order server: where each kitchen_task thread is

vars == <<ds, mem, ds_heap_start, ds_heap_brk, heap_start, heap_end, PAGESIZE,
          get_free_block, mm_initialized, mm_loglevel, nf_ptr, nf, run, live, call, cnt,
          server_ctx, node, client, kitchen>>

\* the state of the order server, a program of its own
server == <<server_ctx, node, client, kitchen>>

\* the part of the state the allocator's operations work on
Heap == [mem |-> mem, d |-> ds, he |-> heap_end, nfp |-> nf_ptr, st |-> "ok"]

\* ------------------------------------------------------------------------
\* Coalescer
\* ------------------------------------------------------------------------
\* coalesce(bp): merge the block at bp with its free neighbours; the result
\* is the memory after the writes and the block pointer returned
coalesce_next_only(m, bp) ==
  LET size == GET_SIZE(m, HDRP(bp))
      next_blk_hdrp == NEXT_PTR(FTRP(m, bp))
      sz == size + GET_SIZE(m, next_blk_hdrp)
  IN IF GET_STATUS(m, next_blk_hdrp) = 0
     THEN [mem |-> PUT(PUT(m, HDRP(bp), PACK(sz, FREE)),
                       HDRP(bp) + sz - TYPE_SIZE, PACK(sz, FREE)),
           bp |-> bp]
     ELSE [mem |-> m, bp |-> bp]

coalesce_keepbp(m, bp) ==
  LET size == GET_SIZE(m, HDRP(bp))
      prev_blk_ftrp == PREV_PTR(HDRP(bp))
      next_blk_hdrp == NEXT_PTR(FTRP(m, bp))
      prev_alloc == GET_STATUS(m, prev_blk_ftrp)
      next_alloc == GET_STATUS(m, next_blk_hdrp)
  IN IF prev_alloc # 0 /\ next_alloc = 0
     THEN LET sz == size + GET_SIZE(m, next_blk_hdrp)
              m1 == PUT(m, HDRP(bp), PACK(sz, FREE))
              m2 == PUT(m1, FTRP(m1, bp), PACK(sz, FREE))
          IN [mem |-> m2, bp |-> bp]
     ELSE IF prev_alloc = 0 /\ next_alloc # 0
     THEN LET sz == size + GET_SIZE(m, prev_blk_ftrp)
              m1 == PUT(m, HDRP(PREV_BLK_PTR(m, bp)), PACK(sz, FREE))
              m2 == PUT(m1, FTRP(m1, bp), PACK(sz, FREE))
          IN [mem |-> m2, bp |-> bp]
     ELSE IF prev_alloc = 0 /\ next_alloc = 0
     THEN LET sz == size + GET_SIZE(m, prev_blk_ftrp) + GET_SIZE(m, next_blk_hdrp)
              m1 == PUT(m, HDRP(PREV_BLK_PTR(m, bp)), PACK(sz, FREE))
              m2 == PUT(m1, FTRP(m1, NEXT_BLK_PTR(m1, bp)), PACK(sz, FREE))
          IN [mem |-> m2, bp |-> bp]
     ELSE [mem |-> m, bp |-> bp]

coalesce(m, bp) ==
  LET size == GET_SIZE(m, HDRP(bp))
      prev_blk_ftrp == PREV_PTR(HDRP(bp))
      next_blk_hdrp == NEXT_PTR(FTRP(m, bp))
      prev_alloc == GET_STATUS(m, prev_blk_ftrp)
      next_alloc == GET_STATUS(m, next_blk_hdrp)
  IN IF prev_alloc # 0 /\ next_alloc = 0
     THEN LET sz == size + GET_SIZE(m, next_blk_hdrp)
              m1 == PUT(m, HDRP(bp), PACK(sz, FREE))
              m2 == PUT(m1, FTRP(m1, bp), PACK(sz, FREE))
          IN [mem |-> m2, bp |-> bp]
     ELSE IF prev_alloc = 0 /\ next_alloc # 0
     THEN LET sz == size + GET_SIZE(m, prev_blk_ftrp)
              m1 == PUT(m, HDRP(PREV_BLK_PTR(m, bp)), PACK(sz, FREE))
              m2 == PUT(m1, FTRP(m1, bp), PACK(sz, FREE))
          IN [mem |-> m2, bp |-> PREV_BLK_PTR(m2, bp)]
     ELSE IF prev_alloc = 0 /\ next_alloc = 0
     THEN LET sz == size + GET_SIZE(m, prev_blk_ftrp) + GET_SIZE(m, next_blk_hdrp)
              m1 == PUT(m, HDRP(PREV_BLK_PTR(m, bp)), PACK(sz, FREE))
              m2 == PUT(m1, FTRP(m1, NEXT_BLK_PTR(m1, bp)), PACK(sz, FREE))
          IN [mem |-> m2, bp |-> PREV_BLK_PTR(m2, bp)]
     ELSE [mem |-> m, bp |-> bp]

extend_heap_nocoalesce(h, size) ==
  LET g == ds_sbrk(h.d, size)
      old_heap_brk == g.ret
  IN IF old_heap_brk = -1
     THEN [h EXCEPT !.st = "panic"]
     ELSE LET old_end_sentinel_size == old_heap_brk - h.he
              m1 == PUT(h.mem, h.he, PACK(old_end_sentinel_size, FREE))
              m2 == PUT(m1, FTRP(m1, NEXT_PTR(h.he)), PACK(old_end_sentinel_size, FREE))
              new_brk == g.d.brk
              m3 == PUT(m2, new_brk - 4 * TYPE_SIZE, PACK(0, ALLOC))
              new_end == new_brk - 4 * TYPE_SIZE
              added_block_size == new_end - old_heap_brk
              m4 == PUT(m3, old_heap_brk, PACK(added_block_size, FREE))
              m5 == PUT(m4, FTRP(m4, NEXT_PTR(old_heap_brk)), PACK(added_block_size, FREE))
          IN [h EXCEPT !.mem = m5, !.d = g.d, !.he = new_end]

extend_heap_coalesce_added(h, size) ==
  LET g == ds_sbrk(h.d, size)
      old_heap_brk == g.ret
  IN IF old_heap_brk = -1
     THEN [h EXCEPT !.st = "panic"]
     ELSE LET old_end_sentinel_size == old_heap_brk - h.he
              m1 == PUT(h.mem, h.he, PACK(old_end_sentinel_size, FREE))
              m2 == PUT(m1, FTRP(m1, NEXT_PTR(h.he)), PACK(old_end_sentinel_size, FREE))
              new_brk == g.d.brk
              m3 == PUT(m2, new_brk - 4 * TYPE_SIZE, PACK(0, ALLOC))
              new_end == new_brk - 4 * TYPE_SIZE
              added_block_size == new_end - old_heap_brk
              m4 == PUT(m3, old_heap_brk, PACK(added_block_size, FREE))
              m5 == PUT(m4, FTRP(m4, NEXT_PTR(old_heap_brk)), PACK(added_block_size, FREE))
              c == coalesce(m5, NEXT_PTR(old_heap_brk))
          IN [h EXCEPT !.mem = c.mem, !.d = g.d, !.he = new_end]

extend_heap_nosentinel(h, size) ==
  LET g == ds_sbrk(h.d, size)
      old_heap_brk == g.ret
  IN IF old_heap_brk = -1
     THEN [h EXCEPT !.st = "panic"]
     ELSE LET old_end_sentinel_size == old_heap_brk - h.he
              m1 == PUT(h.mem, h.he, PACK(old_end_sentinel_size, FREE))
              m2 == PUT(m1, FTRP(m1, NEXT_PTR(h.he)), PACK(old_end_sentinel_size, FREE))
              new_brk == g.d.brk
              new_end == new_brk - 4 * TYPE_SIZE
              added_block_size == new_end - old_heap_brk
              m4 == PUT(m2, old_heap_brk, PACK(added_block_size, FREE))
              m5 == PUT(m4, FTRP(m4, NEXT_PTR(old_heap_brk)), PACK(added_block_size, FREE))
              c == coalesce(m5, PREV_BLK_PTR(m5, NEXT_PTR(old_heap_brk)))
          IN [h EXCEPT !.mem = c.mem, !.d = g.d, !.he = new_end]

\* ------------------------------------------------------------------------
\* Heap extender
\* ------------------------------------------------------------------------
\* extend_heap(size): grow the region, turn the old end sentinel into a
\* free block, install the new end sentinel, free the added bytes, coalesce
extend_heap(h, size) ==
  LET g == ds_sbrk(h.d, size)
      old_heap_brk == g.ret
  IN IF old_heap_brk = -1
     THEN [h EXCEPT !.st = "panic"]
     ELSE LET old_end_sentinel_size == old_heap_brk - h.he
              m1 == PUT(h.mem, h.he, PACK(old_end_sentinel_size, FREE))
              m2 == PUT(m1, FTRP(m1, NEXT_PTR(h.he)), PACK(old_end_sentinel_size, FREE))
              new_brk == g.d.brk
              m3 == PUT(m2, new_brk - 4 * TYPE_SIZE, PACK(0, ALLOC))
              new_end == new_brk - 4 * TYPE_SIZE
              added_block_size == new_end - old_heap_brk
              m4 == PUT(m3, old_heap_brk, PACK(added_block_size, FREE))
              m5 == PUT(m4, FTRP(m4, NEXT_PTR(old_heap_brk)), PACK(added_block_size, FREE))
              c == coalesce(m5, PREV_BLK_PTR(m5, NEXT_PTR(old_heap_brk)))
          IN [h EXCEPT !.mem = c.mem, !.d = g.d, !.he = new_end]

\* ------------------------------------------------------------------------
\* Free block locator
\* ------------------------------------------------------------------------
\* results of a search that does not return: the loop never ends
HANG == -1

RECURSIVE ff_walk_strict(_, _, _, _)
ff_walk_strict(m, he, p, size) ==
  IF p >= he THEN NULL
  ELSE LET value == GET_SIZE(m, p)
           flag == GET_STATUS(m, p)
       IN IF flag = FREE /\ value > size THEN p
          ELSE IF value = 0 THEN HANG
          ELSE ff_walk_strict(m, he, p + value, size)

\* first fit: the walk of the while loop from traverse_ptr p
RECURSIVE ff_walk(_, _, _, _)
ff_walk(m, he, p, size) ==
  IF p >= he THEN NULL
  ELSE LET value == GET_SIZE(m, p)
           flag == GET_STATUS(m, p)
       IN IF flag = FREE /\ value >= size THEN p
          ELSE IF value = 0 THEN HANG
          ELSE ff_walk(m, he, p + value, size)

ff_get_free_block(h, size) ==
  [addr |-> ff_walk(h.mem, h.he, heap_start, size), nfp |-> h.nfp]

RECURSIVE nf_walk_nowrap(_, _, _, _, _)
nf_walk_nowrap(m, he, nfp, p, size) ==
  IF p = he
  THEN NULL
  ELSE LET value == GET_SIZE(m, p)
           flag == GET_STATUS(m, p)
       IN IF flag = FREE /\ value >= size THEN p
          ELSE IF p + value = nfp THEN NULL
          ELSE IF value = 0 \/ p + value > he THEN HANG
          ELSE nf_walk_nowrap(m, he, nfp, p + value, size)

\* next fit: one pass of the do-while body at traverse_ptr p, then the
\* loop condition traverse_ptr != nf_ptr
RECURSIVE nf_walk(_, _, _, _, _)
nf_walk(m, he, nfp, p, size) ==
  IF p = he
  THEN IF heap_start # nfp THEN nf_walk(m, he, nfp, heap_start, size) ELSE NULL
  ELSE LET value == GET_SIZE(m, p)
           flag == GET_STATUS(m, p)
       IN IF flag = FREE /\ value >= size THEN p
          ELSE IF p + value = nfp THEN NULL
          ELSE IF value = 0 \/ p + value > he THEN HANG
          ELSE nf_walk(m, he, nfp, p + value, size)

\* the same loop: the traverse_ptr values whose header it reads, in order
RECURSIVE nf_examined(_, _, _, _, _)
nf_examined(m, he, nfp, p, size) ==
  IF p = he
  THEN IF heap_start # nfp THEN nf_examined(m, he, nfp, heap_start, size) ELSE <<>>
  ELSE LET value == GET_SIZE(m, p)
           flag == GET_STATUS(m, p)
       IN IF flag = FREE /\ value >= size THEN <<p>>
          ELSE IF p + value = nfp THEN <<p>>
          ELSE IF value = 0 \/ p + value > he THEN <<p, HANG>>
          ELSE <<p>> \o nf_examined(m, he, nfp, p + value, size)

nf_get_free_block_nocursor(h, size) ==
  [addr |-> nf_walk(h.mem, h.he, h.nfp, h.nfp, size), nfp |-> h.nfp]

nf_get_free_block(h, size) ==
  LET a == nf_walk(h.mem, h.he, h.nfp, h.nfp, size)
  IN [addr |-> a, nfp |-> IF a # NULL /\ a # HANG THEN a ELSE h.nfp]

\* best fit: bf is the pair <<bf_ptr, bf_fragmentation>>; a fragmentation
\* of -1 stands for the initial UINT_MAX, which every size of the model is
\* below
RECURSIVE bf_walk(_, _, _, _, _)
bf_walk(m, he, p, size, bf) ==
  IF p >= he THEN bf[1]
  ELSE LET value == GET_SIZE(m, p)
           flag == GET_STATUS(m, p)
           better == flag = FREE /\ value >= size
                     /\ (bf[2] = -1 \/ value - size < bf[2])
           bf2 == IF better THEN <<p, value - size>> ELSE bf
       IN IF value = 0 THEN HANG
          ELSE bf_walk(m, he, p + value, size, bf2)

bf_get_free_block(h, size) ==
  [addr |-> bf_walk(h.mem, h.he, heap_start, size, <<NULL, -1>>), nfp |-> h.nfp]

\* the call through the get_free_block function pointer
find_block(h, size) ==
  CASE get_free_block = "ff" -> ff_get_free_block(h, size)
    [] get_free_block = "nf" -> nf_get_free_block(h, size)
    [] get_free_block = "bf" -> bf_get_free_block(h, size)

\* ------------------------------------------------------------------------
\* Allocator / deallocator
\* ------------------------------------------------------------------------
\* ceil((double)(size + 2*TYPE_SIZE) / BS) * BS.  size + 2*TYPE_SIZE is
\* computed in the 64-bit size type: a size written -k (1 <= k <= 16)
\* stands for 2^64 - k, whose sum with 16 wraps to 16 - k
block_size_16(size) ==
  LET s == size + 2 * TYPE_SIZE
  IN ((s + 15) \div 16) * 16

block_size_word(size) ==
  LET s == size + 2 * TYPE_SIZE
  IN ((s + TYPE_SIZE - 1) \div TYPE_SIZE) * TYPE_SIZE

block_size(size) ==
  LET s == size + 2 * TYPE_SIZE
  IN ((s + BS - 1) \div BS) * BS

\* the search of mm_malloc and its retry loop; ext counts extend_heap calls
RECURSIVE malloc_loop(_, _, _)
\* extend_heap(CHUNKSIZE) left the heap e: search again, unless it panicked
malloc_extended(e, alloc_size, ext) ==
  IF e.st # "ok"
  THEN [h |-> e, addr |-> NULL, ext |-> ext]
  ELSE malloc_loop(e, alloc_size, ext + 1)

malloc_searched_doublechunk(h, f, alloc_size, ext) ==
  IF f.addr = HANG
  THEN [h |-> [h EXCEPT !.st = "hang"], addr |-> NULL, ext |-> ext]
  ELSE IF f.addr # NULL
  THEN [h |-> [h EXCEPT !.nfp = f.nfp], addr |-> f.addr, ext |-> ext]
  ELSE malloc_extended(extend_heap(h, 2 * CHUNKSIZE), alloc_size, ext)

\* get_free_block(alloc_size) returned f: while (addr == NULL) extend
malloc_searched(h, f, alloc_size, ext) ==
  IF f.addr = HANG
  THEN [h |-> [h EXCEPT !.st = "hang"], addr |-> NULL, ext |-> ext]
  ELSE IF f.addr # NULL
  THEN [h |-> [h EXCEPT !.nfp = f.nfp], addr |-> f.addr, ext |-> ext]
  ELSE malloc_extended(extend_heap(h, CHUNKSIZE), alloc_size, ext)

malloc_loop(h, alloc_size, ext) ==
  malloc_searched(h, find_block(h, alloc_size), alloc_size, ext)

malloc_place_nosplit(l, alloc_size) ==
  LET addr == l.addr
  IN IF l.h.st # "ok"
     THEN [h |-> l.h, ret |-> NULL, ext |-> l.ext]
     ELSE LET m1 == PUT(l.h.mem, addr, PACK(alloc_size, ALLOC))
              m2 == PUT(m1, FTRP(m1, NEXT_PTR(addr)), PACK(alloc_size, ALLOC))
          IN [h |-> [l.h EXCEPT !.mem = m2], ret |-> NEXT_PTR(addr), ext |-> l.ext]

\* the rest of mm_malloc once the loop l has found the block at l.addr:
\* write the tags of the allocated block and split off what is left
malloc_place(l, alloc_size) ==
  LET addr == l.addr
  IN IF l.h.st # "ok"
     THEN [h |-> l.h, ret |-> NULL, ext |-> l.ext]
     ELSE LET actual_alloc_size == GET_SIZE(l.h.mem, addr)
              m1 == PUT(l.h.mem, addr, PACK(alloc_size, ALLOC))
              m2 == PUT(m1, FTRP(m1, NEXT_PTR(addr)), PACK(alloc_size, ALLOC))
              split_blk == addr + alloc_size
              m3 == PUT(m2, split_blk, PACK(actual_alloc_size - alloc_size, FREE))
              m4 == PUT(m3, FTRP(m3, NEXT_PTR(split_blk)),
                        PACK(actual_alloc_size - alloc_size, FREE))
          IN [h |-> [l.h EXCEPT !.mem = IF actual_alloc_size > alloc_size
                                        THEN m4 ELSE m2],
              ret |-> NEXT_PTR(addr), ext |-> l.ext]

mm_malloc_extendfirst(h, size) ==
  malloc_place(malloc_extended(extend_heap(h, CHUNKSIZE), block_size(size), 0),
               block_size(size))

mm_malloc(h, size) ==
  malloc_place(malloc_loop(h, block_size(size), 0), block_size(size))

mm_free_noreset(h, bp) ==
  IF bp = NULL THEN h
  ELSE LET size == GET_SIZE(h.mem, HDRP(bp))
           m1 == PUT(h.mem, HDRP(bp), PACK(size, FREE))
           m2 == PUT(m1, FTRP(m1, bp), PACK(size, FREE))
       IN [h EXCEPT !.mem = coalesce(m2, bp).mem]

mm_free(h, bp) ==
  IF bp = NULL THEN h
  ELSE LET nfp == IF nf /\ HDRP(bp) = h.nfp THEN heap_start ELSE h.nfp
           size == GET_SIZE(h.mem, HDRP(bp))
           m1 == PUT(h.mem, HDRP(bp), PACK(size, FREE))
           m2 == PUT(m1, FTRP(m1, bp), PACK(size, FREE))
       IN [h EXCEPT !.mem = coalesce(m2, bp).mem, !.nfp = nfp]

\* memset(p, 0, n) on the word memory: every word inside [p, p+n) becomes 0
\* and a last, partly covered word loses its n % 8 low-order bytes (the
\* bytes beyond keep what they held, 0 for a word never written)
memset0_words(m, p, n) ==
  LET full == {p + 8 * i : i \in 0 .. ((n \div 8) - 1)}
  IN [a \in DOMAIN m \cup full |-> IF a \in full THEN 0 ELSE m[a]]

memset0(m, p, n) ==
  LET full == {p + 8 * i : i \in 0 .. ((n \div 8) - 1)}
      k == n % 8
      last == p + 8 * (n \div 8)
      cut == IF k >= 4 THEN 0
             ELSE LET b == 256 ^ k IN IF last \in DOMAIN m THEN (m[last] \div b) * b ELSE 0
      part == IF k = 0 THEN {} ELSE {last}
  IN [a \in DOMAIN m \cup full \cup part |->
        IF a \in full THEN 0 ELSE IF a \in part THEN cut ELSE m[a]]

\* UINT_MAX is 2^32 - 1 = 2 * HALF_UINT_MAX + 1
HALF_UINT_MAX == 2147483647

\* UINT_MAX / nmemb in unsigned 64-bit arithmetic, for nmemb >= 2
UINT_MAX_DIV(nmemb) ==
  2 * (HALF_UINT_MAX \div nmemb) + ((2 * (HALF_UINT_MAX % nmemb) + 1) \div nmemb)

\* UINT_MAX / nmemb < size, that is nmemb * size >= 2^32; with nmemb = 1
\* the quotient is UINT_MAX, which every size of the model is below
calloc_overflow(nmemb, size) ==
  IF nmemb = 1 THEN FALSE ELSE UINT_MAX_DIV(nmemb) < size

\* mm_malloc returned a: clear the first n bytes of the payload
calloc_clear(a, n) ==
  IF a.h.st # "ok" THEN a
  ELSE [a EXCEPT !.h.mem = memset0(a.h.mem, a.ret, n)]

mm_calloc_nozero(h, nmemb, size) ==
  IF nmemb # 0 /\ size # 0 /\ calloc_overflow(nmemb, size)
  THEN [h |-> [h EXCEPT !.st = "panic"], ret |-> NULL, ext |-> 0]
  ELSE calloc_clear(mm_malloc(h, nmemb * size), nmemb * size)

mm_calloc(h, nmemb, size) ==
  IF nmemb = 0 \/ size = 0 THEN [h |-> h, ret |-> NULL, ext |-> 0]
  ELSE IF calloc_overflow(nmemb, size)
  THEN [h |-> [h EXCEPT !.st = "panic"], ret |-> NULL, ext |-> 0]
  ELSE calloc_clear(mm_malloc(h, nmemb * size), nmemb * size)

\* memcpy(dst, src, n) for n a multiple of the word size: a source word
\* never written leaves the destination word unwritten (the same garbage)
memcpy_short(m, dst, src, n) ==
  LET W == {8 * i : i \in 0 .. ((n \div 8) - 2)}
      D == {dst + w : w \in W}
      C == {dst + w : w \in {x \in W : src + x \in DOMAIN m}}
  IN [a \in (DOMAIN m \ D) \cup C |->
        IF a \in D THEN m[src + (a - dst)] ELSE m[a]]

memcpy(m, dst, src, n) ==
  LET W == {8 * i : i \in 0 .. ((n \div 8) - 1)}
      D == {dst + w : w \in W}
      C == {dst + w : w \in {x \in W : src + x \in DOMAIN m}}
  IN [a \in (DOMAIN m \ D) \cup C |->
        IF a \in D THEN m[src + (a - dst)] ELSE m[a]]

realloc_shrink_nocoalesce(h, bp, org_size, alloc_size) ==
  LET org_hdrp == HDRP(bp)
      m1 == PUT(h.mem, org_hdrp, PACK(alloc_size, ALLOC))
      m2 == PUT(m1, FTRP(m1, bp), PACK(alloc_size, ALLOC))
      next_bp == NEXT_BLK_PTR(m2, bp)
      m3 == PUT(m2, HDRP(next_bp), PACK(org_size - alloc_size, FREE))
      m4 == PUT(m3, FTRP(m3, next_bp), PACK(org_size - alloc_size, FREE))
  IN [h |-> [h EXCEPT !.mem = m4], ret |-> bp, ext |-> 0]

\* mm_realloc, alloc_size < org_size: new tags, carve the remainder, coalesce
realloc_shrink(h, bp, org_size, alloc_size) ==
  LET org_hdrp == HDRP(bp)
      m1 == PUT(h.mem, org_hdrp, PACK(alloc_size, ALLOC))
      m2 == PUT(m1, FTRP(m1, bp), PACK(alloc_size, ALLOC))
      next_bp == NEXT_BLK_PTR(m2, bp)
      m3 == PUT(m2, HDRP(next_bp), PACK(org_size - alloc_size, FREE))
      m4 == PUT(m3, FTRP(m3, next_bp), PACK(org_size - alloc_size, FREE))
  IN [h |-> [h EXCEPT !.mem = coalesce(m4, next_bp).mem], ret |-> bp, ext |-> 0]

realloc_extend_nosplit(h, bp, org_size, alloc_size, next_blk_size) ==
  LET org_hdrp == HDRP(bp)
      m1 == PUT(h.mem, org_hdrp, PACK(alloc_size, ALLOC))
      m2 == PUT(m1, FTRP(m1, bp), PACK(alloc_size, ALLOC))
  IN [h |-> [h EXCEPT !.mem = m2], ret |-> bp, ext |-> 0]

\* mm_realloc, the next block is free and large enough: extend in place
realloc_extend(h, bp, org_size, alloc_size, next_blk_size) ==
  LET org_hdrp == HDRP(bp)
      m1 == PUT(h.mem, org_hdrp, PACK(alloc_size, ALLOC))
      m2 == PUT(m1, FTRP(m1, bp), PACK(alloc_size, ALLOC))
      splitted_bp == NEXT_BLK_PTR(m2, bp)
      splitted_blk_size == next_blk_size - (alloc_size - org_size)
      m3 == PUT(m2, HDRP(splitted_bp), PACK(splitted_blk_size, FREE))
      m4 == PUT(m3, FTRP(m3, splitted_bp), PACK(splitted_blk_size, FREE))
  IN [h |-> [h EXCEPT !.mem = IF next_blk_size > alloc_size - org_size THEN m4 ELSE m2],
      ret |-> bp, ext |-> 0]

\* mm_realloc, the next block is allocated or too small: allocate a new
\* block, free the old one, copy the old payload
\* mm_free(bp) left the heap h2: copy the old payload to the new block n.ret
realloc_copy(n, h2, bp, payload_size) ==
  [n EXCEPT !.h = [h2 EXCEPT !.mem = memcpy(h2.mem, n.ret, bp, payload_size)]]

realloc_moved_nofree(n, bp, payload_size) ==
  IF n.h.st # "ok" THEN n
  ELSE IF payload_size < 0
  THEN [n EXCEPT !.h.st = "fault", !.ret = NULL]
  ELSE realloc_copy(n, n.h, bp, payload_size)

\* mm_malloc(size) returned n; a payload_size below 0 stands for the
\* wrapped-around org_size - 2*TYPE_SIZE of a block of size 0
realloc_moved(n, bp, payload_size) ==
  IF n.h.st # "ok" THEN n
  ELSE IF payload_size < 0
  THEN [n EXCEPT !.h.st = "fault", !.ret = NULL]
  ELSE realloc_copy(n, mm_free(n.h, bp), bp, payload_size)

realloc_move(h, bp, org_size, size) ==
  realloc_moved(mm_malloc(h, size), bp, org_size - 2 * TYPE_SIZE)

\* mm_realloc from the read of the block's header on; h1 is the heap as
\* the first two statements left it
realloc_resize(h1, bp, size) ==
  LET org_size == GET_SIZE(h1.mem, HDRP(bp))
      alloc_size == block_size(size)
      next_bp == NEXT_BLK_PTR(h1.mem, bp)
      next_blk_size == GET_SIZE(h1.mem, HDRP(next_bp))
  IN IF alloc_size < org_size
     THEN realloc_shrink(h1, bp, org_size, alloc_size)
     ELSE IF alloc_size > org_size
     THEN IF GET_STATUS(h1.mem, HDRP(next_bp)) = FREE
             /\ next_blk_size >= alloc_size - org_size
          THEN realloc_extend(h1, bp, org_size, alloc_size, next_blk_size)
          ELSE realloc_move(h1, bp, org_size, size)
     ELSE [h |-> h1, ret |-> bp, ext |-> 0]

\* the heap extensions of the whole call
realloc_result(r, ext) == [r EXCEPT !.ext = ext + r.ext]

\* a is the pointer mm_realloc works on and the heap it starts from; for
\* size 0 the block is freed and the function goes on
realloc_entered(a, size) ==
  IF a.h.st # "ok" THEN a
  ELSE realloc_result(
         realloc_resize(IF size = 0 THEN mm_free(a.h, a.ret) ELSE a.h, a.ret, size),
         a.ext)

mm_realloc(h, bp0, size) ==
  realloc_entered(IF bp0 = NULL THEN mm_malloc(h, size)
                  ELSE [h |-> h, ret |-> bp0, ext |-> 0], size)

\* ------------------------------------------------------------------------
\* Order server (unnamed/part_002): constants, threads, initial state
\* ------------------------------------------------------------------------
\* the most customers admitted at a time; 20 in the source, kept small here
\* so that a few client threads reach it
CUSTOMER_MAX == 1

\* the number of kitchen threads; 5 in the source
NUM_KITCHEN == 2

\* how many connections the server accepts in a run, one serve_client
\* thread each
MaxClients == 2

Clients == 1 .. MaxClients

Kitchens == 1 .. NUM_KITCHEN

\* the order of client c is Node c; issue_order allocates it
NewNode == [next |-> NULL, is_ready |-> FALSE, signalled |-> FALSE, got |-> 0]

\* init_mcdonalds: the context is zeroed, the kitchen threads are started;
\* the accepted connections have their serve_client threads at their start
init_mcdonalds ==
  /\ server_ctx = [head |-> NULL, tail |-> NULL, count |-> 0,
                   total_queueing |-> 0, total_customers |-> 0, total_burgers |-> 0]
  /\ node = [c \in Clients |-> NewNode]
  /\ client = [c \in Clients |-> "admit"]
  /\ kitchen = [k \in Kitchens |-> [pc |-> "poll", order |-> NULL]]

\* ------------------------------------------------------------------------
\* Inputs of the calls
\* ------------------------------------------------------------------------
Policies == {"ap_FirstFit", "ap_NextFit", "ap_BestFit", "ap_Invalid"}

MallocSizes == {16, 24, 4048}

ReallocSizes == {0, 16, 48}

CallocArgs == {<<3, 3>>}

\* what the caller stores: word a of the payload receives a + v
DataVals == {1}

\* states of the region provider when the program starts
Providers ==
  { [start |-> DsBase, brk |-> DsBase, pagesize |-> DsPageSize,
     limit |-> DsBase + MaxChunks * CHUNKSIZE],
    [start |-> DsBase, brk |-> DsBase, pagesize |-> DsPageSize, limit |-> DsBase],
    [start |-> DsBase, brk |-> DsBase, pagesize |-> 0,
     limit |-> DsBase + MaxChunks * CHUNKSIZE],
    [start |-> DsBase, brk |-> DsBase + CHUNKSIZE, pagesize |-> DsPageSize,
     limit |-> DsBase + MaxChunks * CHUNKSIZE],
    [start |-> NULL, brk |-> NULL, pagesize |-> DsPageSize, limit |-> NULL] }

NoCall == [op |-> "none", a1 |-> 0, a2 |-> 0, ret |-> 0, ext |-> 0, org |-> 0]

Init ==
  /\ ds \in Providers
  /\ mem = <<>>
  /\ ds_heap_start = NULL
  /\ ds_heap_brk = NULL
  /\ heap_start = NULL
  /\ heap_end = NULL
  /\ PAGESIZE = 0
  /\ get_free_block = "NULL"
  /\ mm_initialized = 0
  /\ mm_loglevel = 0
  /\ nf_ptr = NULL
  /\ nf = FALSE
  /\ run = "running"
  /\ live = {}
  /\ call = NoCall
  /\ cnt = [init |-> 0, ops |-> 0]
  /\ init_mcdonalds

\* ------------------------------------------------------------------------
\* Operations
\* ------------------------------------------------------------------------
\* the record of a completed call: its arguments, its result, the number of
\* heap extensions it made, and the size the block at its pointer argument
\* had when it was called
OrgSize(bp) ==
  IF bp # NULL /\ mm_initialized = 1 /\ HDRP(bp) \in DOMAIN mem
  THEN GET_SIZE(mem, HDRP(bp)) ELSE 0

Done(op, a1, a2, ret, ext) ==
  call' = [op |-> op, a1 |-> a1, a2 |-> a2, ret |-> ret, ext |-> ext,
           org |-> IF op \in {"realloc", "free"} THEN OrgSize(a1) ELSE 0]

\* the process ends inside the call (PANIC, failed assert) with the state
\* as the call left it
Ends(how) ==
  /\ run' = how
  /\ UNCHANGED live

init_refused_nopristine(d, g) ==
  d.start = NULL \/ d.pagesize = 0 \/ g.ret = -1

init_refused_nopagesize(d, g) ==
  d.start = NULL \/ d.start # d.brk \/ g.ret = -1

\* the sanity checks of mm_init on the provider d and the initial grow call
\* g: each of them ends in PANIC
init_refused(d, g) ==
  d.start = NULL \/ d.start # d.brk \/ d.pagesize = 0 \/ g.ret = -1

\* heap_start and heap_end, aligned inside the region [start, brk)
init_heap_start(start) == ((start \div BS) + 1) * BS

init_heap_end(brk) == ((brk \div BS) - 1) * BS

init_tags_nofooter(m, hs, he) ==
  LET m1 == PUT(m, PREV_PTR(hs), PACK(0, ALLOC))
      m2 == PUT(m1, he, PACK(0, ALLOC))
  IN PUT(m2, hs, PACK(he - hs, FREE))

\* the two sentinels, then the header and footer of the one free block
init_tags(m, hs, he) ==
  LET m1 == PUT(m, PREV_PTR(hs), PACK(0, ALLOC))
      m2 == PUT(m1, he, PACK(0, ALLOC))
      m3 == PUT(m2, hs, PACK(he - hs, FREE))
  IN PUT(m3, PREV_PTR(he), PACK(he - hs, FREE))

mm_init(ap) ==
  LET gfb == CASE ap = "ap_FirstFit" -> "ff"
               [] ap = "ap_NextFit" -> "nf"
               [] ap = "ap_BestFit" -> "bf"
               [] OTHER -> get_free_block
      g == ds_sbrk(ds, CHUNKSIZE)
      hs == init_heap_start(ds.start)
      he == init_heap_end(g.d.brk)
      m4 == init_tags(mem, hs, he)
  IN
  /\ run = "running"
  /\ cnt' = [cnt EXCEPT !.init = @ + 1]
  /\ Done("init", ap, 0, 0, 0)
  /\ get_free_block' = gfb
  /\ UNCHANGED <<mm_loglevel, server>>
  /\ IF ap = "ap_Invalid"
     THEN /\ Ends("panic")
          /\ UNCHANGED <<ds, mem, ds_heap_start, ds_heap_brk, heap_start, heap_end,
                         PAGESIZE, mm_initialized, nf_ptr, nf>>
     ELSE /\ ds_heap_start' = ds.start
          /\ PAGESIZE' = ds.pagesize
          /\ IF init_refused(ds, g)
             THEN /\ Ends("panic")
                  /\ ds_heap_brk' = ds.brk
                  /\ UNCHANGED <<ds, mem, heap_start, heap_end, mm_initialized, nf_ptr, nf>>
             ELSE /\ ds' = g.d
                  /\ ds_heap_brk' = g.d.brk
                  /\ heap_start' = hs
                  /\ heap_end' = he
                  /\ mem' = m4
                  /\ nf' = IF ap = "ap_NextFit" THEN TRUE ELSE nf
                  /\ nf_ptr' = IF ap = "ap_NextFit" THEN hs ELSE nf_ptr
                  /\ mm_initialized' = 1
                  /\ UNCHANGED <<run, live>>

\* the state an allocator operation left, written back to the globals
Commit(h) ==
  /\ mem' = h.mem
  /\ ds' = h.d
  /\ ds_heap_brk' = h.d.brk
  /\ heap_end' = h.he
  /\ nf_ptr' = h.nfp
  /\ UNCHANGED <<ds_heap_start, heap_start, PAGESIZE, get_free_block, mm_initialized,
                 mm_loglevel, nf, server>>

\* assert(mm_initialized) fails
Abort ==
  /\ run' = "abort"
  /\ UNCHANGED <<ds, mem, ds_heap_start, ds_heap_brk, heap_start, heap_end, PAGESIZE,
                 get_free_block, mm_initialized, mm_loglevel, nf_ptr, nf, live, server>>

Malloc(size) ==
  /\ run = "running"
  /\ cnt' = [cnt EXCEPT !.ops = @ + 1]
  /\ IF mm_initialized = 0
     THEN Abort /\ Done("malloc", size, 0, NULL, 0)
     ELSE \E r \in {mm_malloc(Heap, size)} :
             /\ Commit(r.h)
             /\ Done("malloc", size, 0, r.ret, r.ext)
             /\ IF r.h.st = "ok"
                THEN run' = run /\ live' = live \cup {r.ret}
                ELSE Ends(r.h.st)

Calloc(nmemb, size) ==
  /\ run = "running"
  /\ cnt' = [cnt EXCEPT !.ops = @ + 1]
  /\ IF mm_initialized = 0
     THEN Abort /\ Done("calloc", nmemb, size, NULL, 0)
     ELSE \E r \in {mm_calloc(Heap, nmemb, size)} :
             /\ Commit(r.h)
             /\ Done("calloc", nmemb, size, r.ret, r.ext)
             /\ IF r.h.st = "ok"
                THEN run' = run /\ live' = live \cup ({r.ret} \ {NULL})
                ELSE Ends(r.h.st)

\* resize: the caller gives up bp; with size > 0 it holds the result
Realloc(bp, size) ==
  /\ run = "running"
  /\ cnt' = [cnt EXCEPT !.ops = @ + 1]
  /\ IF mm_initialized = 0
     THEN Abort /\ Done("realloc", bp, size, NULL, 0)
     ELSE \E r \in {mm_realloc(Heap, bp, size)} :
             /\ Commit(r.h)
             /\ Done("realloc", bp, size, r.ret, r.ext)
             /\ IF r.h.st = "ok"
                THEN /\ run' = run
                     /\ live' = IF size = 0 THEN live \ {bp}
                                ELSE (live \ {bp}) \cup {r.ret}
                ELSE Ends(r.h.st)

Free(bp) ==
  /\ run = "running"
  /\ cnt' = [cnt EXCEPT !.ops = @ + 1]
  /\ Done("free", bp, 0, 0, 0)
  /\ IF mm_initialized = 0
     THEN Abort
     ELSE /\ Commit(mm_free(Heap, bp))
          /\ run' = run
          /\ live' = live \ {bp}

\* the caller writes its data into the payload of a live allocation: all of
\* it, or its first StoreMax bytes when it is larger
Min(a, b) == IF a < b THEN a ELSE b

Store(bp, v) ==
  LET n == Min(GET_SIZE(mem, HDRP(bp)) - 2 * TYPE_SIZE, StoreMax)
      W == {bp + 8 * i : i \in 0 .. ((n \div 8) - 1)}
  IN
  /\ run = "running"
  /\ cnt' = [cnt EXCEPT !.ops = @ + 1]
  /\ mem' = [a \in DOMAIN mem \cup W |-> IF a \in W THEN a + v ELSE mem[a]]
  /\ Done("store", bp, v, 0, 0)
  /\ UNCHANGED <<ds, ds_heap_start, ds_heap_brk, heap_start, heap_end, PAGESIZE,
                 get_free_block, mm_initialized, mm_loglevel, nf_ptr, nf, run, live,
                 server>>

\* the first call is mm_init
Start == \E ap \in Policies : cnt.init = 0 /\ mm_init(ap)

\* every operation, on the inputs above
Calls ==
  \/ \E size \in MallocSizes : Malloc(size)
  \/ \E c \in CallocArgs : Calloc(c[1], c[2])
  \/ \E bp \in live \cup {NULL}, size \in ReallocSizes : Realloc(bp, size)
  \/ \E bp \in live : Free(bp)
  \/ \E bp \in live, v \in DataVals : Store(bp, v)

Next ==
  \/ Start
  \/ cnt.ops < MaxOps /\ Calls

Spec == Init /\ [][Next]_vars

\* the same program, one call further
NextDeep ==
  \/ Start
  \/ cnt.ops < MaxOpsDeep /\ Calls

SpecDeep == Init /\ [][NextDeep]_vars

\* allocate and release alone, on request sizes that include the smallest
\* ones and the largest of the size type (-k stands for 2^64 - k)
WideSizes == {0, 16, 17, 48, -16, -1}

NextSizes ==
  \/ Start
  \/ cnt.ops < MaxOps /\ \E size \in WideSizes : Malloc(size)
  \/ cnt.ops < MaxOps /\ \E bp \in live : Free(bp)

SpecSizes == Init /\ [][NextSizes]_vars

\* ------------------------------------------------------------------------
\* The block sequence, as mm_check walks it
\* ------------------------------------------------------------------------
\* headers met walking from p by header sizes while p < heap_end; the walk
\* stops at a header of size 0
RECURSIVE Walk(_, _, _)
Walk(m, he, p) ==
  IF p >= he THEN <<>>
  ELSE IF GET_SIZE(m, p) = 0 THEN <<p>>
  ELSE <<p>> \o Walk(m, he, p + GET_SIZE(m, p))

Blocks == Walk(mem, heap_end, heap_start)

Quiescent == mm_initialized = 1 /\ run = "running"

FooterOf(m, p) == p + GET_SIZE(m, p) - TYPE_SIZE

NoAdjacentFree ==
  \A i \in 1 .. Len(Blocks) - 1 :
    ~(GET_STATUS(mem, Blocks[i]) = FREE /\ GET_STATUS(mem, Blocks[i + 1]) = FREE)

\* a step that is a completed call of op on the initialized heap
Returned(op) ==
  /\ mm_initialized = 1
  /\ cnt'.ops = cnt.ops + 1
  /\ call'.op = op
  /\ run' = "running"

\* the least multiple of 32 that is >= n + 16
RoundUp(n) == ((n + 2 * TYPE_SIZE + BS - 1) \div BS) * BS

RECURSIVE SumSizes(_, _)
SumSizes(m, w) ==
  IF w = <<>> THEN 0 ELSE GET_SIZE(m, Head(w)) + SumSizes(m, Tail(w))

\* a FREE (ALLOCATED) block of the given size starts at header address p
FreeBlockAt(m, p, size) ==
  /\ p \in DOMAIN m
  /\ m[p] = PACK(size, FREE)
  /\ p + size - TYPE_SIZE \in DOMAIN m
  /\ m[p + size - TYPE_SIZE] = PACK(size, FREE)

AllocBlockAt(m, p, size) ==
  /\ p \in DOMAIN m
  /\ m[p] = PACK(size, ALLOC)
  /\ p + size - TYPE_SIZE \in DOMAIN m
  /\ m[p + size - TYPE_SIZE] = PACK(size, ALLOC)

\* ------------------------------------------------------------------------
\* Properties
\* ------------------------------------------------------------------------

\* C1: at every quiescent point after init, after any sequence of completed
\* allocate, allocateZeroed, resize (newSize 0 included) and release calls
\* on live pointers, every block of the walk from heap_start to heap_end
\* has a footer tag equal to its header tag
TagAgreement ==
  Quiescent =>
    \A i \in 1 .. Len(Blocks) :
      LET p == Blocks[i]
      IN FooterOf(mem, p) \in DOMAIN mem /\ mem[FooterOf(mem, p)] = mem[p]

\* C2: after a release call completes, no two physically adjacent blocks of
\* the walk from heap_start to heap_end are both FREE
NoAdjacentFreeAfterRelease ==
  (Quiescent /\ call.op = "free") => NoAdjacentFree

\* C3: an allocate call on an initialized heap ends in one of exactly two
\* ways, for every requested size and policy: it returns the non-null
\* payload address of an ALLOCATED block, or the process is terminated
\* because the provider refused to grow; it never returns null and never
\* loops forever
MallocOutcome ==
  (mm_initialized = 1 /\ call.op = "malloc") =>
    \/ /\ run = "running"
       /\ call.ret # NULL
       /\ GET_STATUS(mem, HDRP(call.ret)) = ALLOC
    \/ /\ run = "panic"
       /\ ds.brk + CHUNKSIZE > ds.limit

MallocBlockSize ==
  (Quiescent /\ call.op = "malloc") =>
    /\ call.a1 >= 0
    /\ GET_SIZE(mem, HDRP(call.ret)) = RoundUp(call.a1)
    /\ GET_SIZE(mem, HDRP(call.ret)) - 2 * TYPE_SIZE >= call.a1

\* C6: resize(ptr, n) with n > 0 on a live allocation returns an address q
\* whose first min(L, n) bytes are the bytes ptr held before the call, L
\* being the size of the old payload, whichever of the three paths is taken
ResizeKeepsContent ==
  [][ (Returned("realloc") /\ call'.a1 \in live /\ call'.a2 > 0) =>
        LET ptr == call'.a1
            q == call'.ret
            L == GET_SIZE(mem, HDRP(ptr)) - 2 * TYPE_SIZE
        IN \A w \in 0 .. Min(L, call'.a2) - 1 :
             (w % 8 = 0 /\ ptr + w \in DOMAIN mem) =>
               (q + w \in DOMAIN mem' /\ mem'[q + w] = mem[ptr + w]) ]_vars

\* C6 witness: a resize moved a payload the caller had stored data in
MovedWithContent ==
  /\ Quiescent
  /\ call.op = "realloc"
  /\ call.a1 # NULL
  /\ call.a2 > 0
  /\ call.ret # call.a1
  /\ call.ret + call.org - 3 * TYPE_SIZE \in DOMAIN mem
  /\ \E v \in DataVals :
       /\ mem[call.ret] = call.a1 + v
       /\ mem[call.ret + call.org - 3 * TYPE_SIZE] = call.a1 + call.org - 3 * TYPE_SIZE + v

\* C7: resize(ptr, 0) on a live allocation returns null and leaves the heap
\* (every tag, heap_end, the next-fit cursor) exactly as release(ptr) alone
\* leaves it
ResizeZeroIsRelease ==
  [][ (Returned("realloc") /\ call'.a1 \in live /\ call'.a2 = 0) =>
        LET f == mm_free(Heap, call'.a1)
        IN /\ call'.ret = NULL
           /\ mem' = f.mem
           /\ nf_ptr' = f.nfp
           /\ heap_end' = f.he ]_vars

\* C8: for every newSize, resize(null, newSize) returns the address and
\* leaves the heap state (tags, heap_end, cursor) that allocate(newSize)
\* gives from the same state
ResizeNullIsMalloc ==
  [][ (Returned("realloc") /\ call'.a1 = NULL) =>
        LET r == mm_malloc(Heap, call'.a2)
        IN /\ call'.ret = r.ret
           /\ mem' = r.h.mem
           /\ nf_ptr' = r.h.nfp
           /\ heap_end' = r.h.he ]_vars

\* C9: a resize with newSize > 0 and a new block size below the current one
\* returns ptr, leaves the block at ptr ALLOCATED with exactly the new
\* block size, and the remainder is FREE and merged with the following
\* block if that block was FREE: the remainder has no FREE neighbour, and
\* if no two adjacent blocks were FREE before, none are after
ShrinkInPlace ==
  [][ (Returned("realloc") /\ call'.a1 \in live /\ call'.a2 > 0
       /\ RoundUp(call'.a2) < GET_SIZE(mem, HDRP(call'.a1))) =>
        LET ptr == call'.a1
            hdr == HDRP(ptr)
            cur == GET_SIZE(mem, hdr)
            nb == RoundUp(call'.a2)
            nxt == hdr + cur
            merged == IF GET_STATUS(mem, nxt) = FREE THEN GET_SIZE(mem, nxt) ELSE 0
        IN /\ call'.ret = ptr
           /\ AllocBlockAt(mem', hdr, nb)
           /\ FreeBlockAt(mem', hdr + nb, cur - nb + merged)
           /\ GET_STATUS(mem', hdr + cur + merged) # FREE
           /\ NoAdjacentFree => NoAdjacentFree' ]_vars

\* C9 witness: a resize shrank a block whose following block was FREE
ShrunkAndMerged ==
  /\ Quiescent
  /\ call.op = "realloc"
  /\ call.a1 # NULL
  /\ call.a2 > 0
  /\ call.ret = call.a1
  /\ RoundUp(call.a2) < call.org
  /\ GET_STATUS(mem, HDRP(call.a1) + RoundUp(call.a2)) = FREE
  /\ GET_SIZE(mem, HDRP(call.a1) + RoundUp(call.a2)) > call.org - RoundUp(call.a2)

\* C10: a resize whose new block size is above the current one and whose
\* following block is FREE with at least the missing size returns ptr, the
\* block at ptr is ALLOCATED with the new block size, the unused part of
\* the neighbour is one FREE block directly after it, heap_end and the sum
\* of all block sizes are unchanged
GrowInPlace ==
  [][ (Returned("realloc") /\ call'.a1 \in live /\ call'.a2 > 0
       /\ RoundUp(call'.a2) > GET_SIZE(mem, HDRP(call'.a1))
       /\ GET_STATUS(mem, HDRP(call'.a1) + GET_SIZE(mem, HDRP(call'.a1))) = FREE
       /\ GET_SIZE(mem, HDRP(call'.a1) + GET_SIZE(mem, HDRP(call'.a1)))
            >= RoundUp(call'.a2) - GET_SIZE(mem, HDRP(call'.a1))) =>
        LET ptr == call'.a1
            hdr == HDRP(ptr)
            cur == GET_SIZE(mem, hdr)
            nb == RoundUp(call'.a2)
            rest == GET_SIZE(mem, hdr + cur) - (nb - cur)
        IN /\ call'.ret = ptr
           /\ AllocBlockAt(mem', hdr, nb)
           /\ rest > 0 => FreeBlockAt(mem', hdr + nb, rest)
           /\ heap_end' = heap_end
           /\ SumSizes(mem', Walk(mem', heap_end', heap_start))
                = SumSizes(mem, Walk(mem, heap_end, heap_start)) ]_vars

\* C10 witness: a resize grew a block into its FREE neighbour and left the
\* rest of the neighbour FREE
GrewInPlace ==
  /\ Quiescent
  /\ call.op = "realloc"
  /\ call.a1 # NULL
  /\ call.a2 > 0
  /\ call.ret = call.a1
  /\ RoundUp(call.a2) > call.org
  /\ GET_SIZE(mem, HDRP(call.a1)) = RoundUp(call.a2)
  /\ GET_STATUS(mem, HDRP(call.a1) + RoundUp(call.a2)) = FREE

\* the header of the block of the walk w that holds address a, or NULL
HolderOf(m, w, a) ==
  LET H == {i \in 1 .. Len(w) : w[i] <= a /\ a < w[i] + GET_SIZE(m, w[i])}
  IN IF H = {} THEN NULL ELSE w[CHOOSE i \in H : TRUE]

\* the block of the walk w that holds address a is FREE, and the blocks of
\* the walk next to it are not
FreeAndCoalesced(m, w, a) ==
  \E i \in 1 .. Len(w) :
    /\ w[i] <= a /\ a < w[i] + GET_SIZE(m, w[i])
    /\ GET_STATUS(m, w[i]) = FREE
    /\ i > 1 => GET_STATUS(m, w[i - 1]) # FREE
    /\ i < Len(w) => GET_STATUS(m, w[i + 1]) # FREE
    /\ GET_STATUS(m, w[i] - TYPE_SIZE) # FREE
    /\ GET_STATUS(m, w[i] + GET_SIZE(m, w[i])) # FREE

\* C11: a resize with newSize > 0 whose new block size is above the current
\* one, and whose following block is ALLOCATED or FREE but smaller than the
\* deficit, returns the payload address of a different block that was not
\* allocated before and now is ALLOCATED with size roundUp(newSize + 16, 32);
\* after the call the old block lies in a FREE block that has no FREE
\* neighbour
GrowByMoving ==
  [][ (Returned("realloc") /\ call'.a1 \in live /\ call'.a2 > 0
       /\ RoundUp(call'.a2) > GET_SIZE(mem, HDRP(call'.a1))
       /\ ~(/\ GET_STATUS(mem, HDRP(call'.a1) + GET_SIZE(mem, HDRP(call'.a1))) = FREE
            /\ GET_SIZE(mem, HDRP(call'.a1) + GET_SIZE(mem, HDRP(call'.a1)))
                 >= RoundUp(call'.a2) - GET_SIZE(mem, HDRP(call'.a1)))) =>
        LET ptr == call'.a1
            q == call'.ret
            cur == GET_SIZE(mem, HDRP(ptr))
        IN /\ q # ptr
           /\ q # NULL
           /\ q \notin live
           /\ AllocBlockAt(mem', HDRP(q), RoundUp(call'.a2))
           /\ \A a \in {HDRP(ptr), HDRP(ptr) + cur - TYPE_SIZE} :
                FreeAndCoalesced(mem', Walk(mem', heap_end', heap_start), a)
           /\ HolderOf(mem', Walk(mem', heap_end', heap_start), HDRP(ptr))
                = HolderOf(mem', Walk(mem', heap_end', heap_start),
                           HDRP(ptr) + cur - TYPE_SIZE) ]_vars

\* C11 witness: a growing resize moved a block; the old block was merged
\* into a larger FREE block
MovedAndFreed ==
  /\ Quiescent
  /\ call.op = "realloc"
  /\ call.a1 # NULL
  /\ call.a2 > 0
  /\ RoundUp(call.a2) > call.org
  /\ call.ret # call.a1
  /\ HolderOf(mem, Blocks, HDRP(call.a1)) # NULL
  /\ GET_STATUS(mem, HolderOf(mem, Blocks, HDRP(call.a1))) = FREE
  /\ GET_SIZE(mem, HolderOf(mem, Blocks, HDRP(call.a1))) > call.org

\* ------------------------------------------------------------------------
\* Calls that do nothing
\* ------------------------------------------------------------------------
\* allocate, release and allocateZeroed, with the null pointer and the zero
\* arguments among the inputs
NoopSizes == {16, 4048}

NoopCallocArgs == {<<0, 24>>, <<24, 0>>, <<0, 0>>, <<3, 8>>}

NextNoop ==
  \/ Start
  \/ cnt.ops < MaxOps /\ \E size \in NoopSizes : Malloc(size)
  \/ cnt.ops < MaxOps /\ \E c \in NoopCallocArgs : Calloc(c[1], c[2])
  \/ cnt.ops < MaxOps /\ \E bp \in live \cup {NULL} : Free(bp)

SpecNoop == Init /\ [][NextNoop]_vars

\* a step that is a call of op on the initialized heap, however it ends
Called(op) ==
  /\ mm_initialized = 1
  /\ cnt'.ops = cnt.ops + 1
  /\ call'.op = op

\* C12: release(null), allocateZeroed(0, n) and allocateZeroed(n, 0) return
\* with the whole heap state unchanged (heap_start, heap_end, every word,
\* the next-fit cursor, the provider), extend nothing, and the two
\* allocateZeroed calls return null
BenignNoops ==
  [][ /\ (Called("free") /\ call'.a1 = NULL) =>
           /\ run' = "running"
           /\ UNCHANGED <<mem, ds, ds_heap_start, ds_heap_brk, heap_start, heap_end,
                          nf_ptr, nf, get_free_block, mm_initialized, live>>
      /\ (Called("calloc") /\ (call'.a1 = 0 \/ call'.a2 = 0)) =>
           /\ run' = "running"
           /\ call'.ret = NULL
           /\ call'.ext = 0
           /\ UNCHANGED <<mem, ds, ds_heap_start, ds_heap_brk, heap_start, heap_end,
                          nf_ptr, nf, get_free_block, mm_initialized, live>> ]_vars

\* C12 witness: a zero-count allocateZeroed returned on a heap that holds a
\* live allocation
NoopOnUsedHeap ==
  /\ Quiescent
  /\ call.op = "calloc"
  /\ call.a1 = 0
  /\ call.a2 > 0
  /\ call.ret = NULL
  /\ live # {}

\* ------------------------------------------------------------------------
\* Zeroed allocation
\* ------------------------------------------------------------------------
\* allocateZeroed on small products, with and without a partly covered
\* last word, and on the product 2^32, which the 64-bit size type holds
ZeroedArgs == {<<3, 3>>, <<3, 8>>, <<65536, 65536>>}

NextZeroed ==
  \/ Start
  \/ cnt.ops < MaxOps /\ \E c \in ZeroedArgs : Calloc(c[1], c[2])
  \/ cnt.ops < MaxOps /\ \E bp \in live : Free(bp)
  \/ cnt.ops < MaxOps /\ \E bp \in live, v \in DataVals : Store(bp, v)

SpecZeroed == Init /\ [][NextZeroed]_vars

\* C13: allocateZeroed(count, elemSize) with both arguments non-zero ends
\* the process exactly when count * elemSize overflows the size type.  The
\* products of the model are all below 2^64, so the call never ends the
\* process for its arguments: it may only end it when the provider refuses
\* to grow
CallocAbortsOnlyOnOverflow ==
  [][ (Called("calloc") /\ call'.a1 # 0 /\ call'.a2 # 0 /\ run' # "running") =>
        /\ run' = "panic"
        /\ ds'.brk + CHUNKSIZE > ds'.limit ]_vars

\* the n % 8 low-order bytes of the word value v are zero (the values of
\* the model fit four bytes)
LowBytesZero(v, k) ==
  IF k >= 4 THEN v = 0 ELSE v % (256 ^ k) = 0

\* C14: after every successful allocateZeroed(count, elemSize) all
\* count * elemSize bytes of the returned payload are zero, also when the
\* block is a released one whose payload held other data
CallocZeroFills ==
  (Quiescent /\ call.op = "calloc" /\ call.ret # NULL) =>
    LET n == call.a1 * call.a2
        last == call.ret + 8 * (n \div 8)
    IN /\ \A i \in 0 .. ((n \div 8) - 1) :
            call.ret + 8 * i \in DOMAIN mem /\ mem[call.ret + 8 * i] = 0
       /\ n % 8 # 0 => (last \in DOMAIN mem /\ LowBytesZero(mem[last], n % 8))

\* C14 witness: allocateZeroed returned a released block that held the
\* caller's data: the bytes beyond the request in its last word are left
ZeroedDirtyBlock ==
  /\ Quiescent
  /\ call.op = "calloc"
  /\ call.ret # NULL
  /\ (call.a1 * call.a2) % 8 # 0
  /\ mem[call.ret] = 0
  /\ mem[call.ret + 8 * ((call.a1 * call.a2) \div 8)] # 0

\* ------------------------------------------------------------------------
\* Next-fit cursor
\* ------------------------------------------------------------------------
\* a step that is a completed call which released the block of its pointer
\* argument while the next-fit cursor referenced that block's header:
\* release, resize to 0, or a resize that moved the block
ReleasedUnderCursor ==
  /\ mm_initialized = 1
  /\ cnt'.ops = cnt.ops + 1
  /\ run' = "running"
  /\ nf
  /\ call'.a1 \in live
  /\ nf_ptr = HDRP(call'.a1)
  /\ \/ call'.op = "free"
     \/ call'.op = "realloc" /\ (call'.a2 = 0 \/ call'.ret # call'.a1)

UINT_MAX_WORDS == HALF_UINT_MAX \div 4 + 1

\* blocks[i] = [size, status]; bf is <<index of bf_ptr (0: NULL),
\* bf_fragmentation in words>>
RECURSIVE bf_scan(_, _, _, _)
bf_scan(blocks, size, i, bf) ==
  IF i > Len(blocks) THEN bf[1]
  ELSE LET value == blocks[i].size
           flag == blocks[i].status
           better == flag = FREE /\ value >= size /\ value - size < bf[2]
       IN bf_scan(blocks, size, i + 1, IF better THEN <<i, value - size>> ELSE bf)

bf_get_free_block_words(blocks, size) ==
  bf_scan(blocks, size, 1, <<0, UINT_MAX_WORDS>>)

\* block sizes in words: 32 bytes, 64 bytes, 4 GiB + 32 bytes
BfBlockSizes == {4, 8, UINT_MAX_WORDS + 4}

\* requested block sizes in words: 32 bytes, 64 bytes
BfRequests == {4, 8}

BfBlocks == [size : BfBlockSizes, status : {FREE, ALLOC}]

\* heaps of up to MaxBlocks blocks in which no two neighbours are FREE
BfHeaps ==
  {b \in UNION {[1 .. n -> BfBlocks] : n \in 1 .. MaxBlocks} :
     \A i \in 1 .. Len(b) - 1 : ~(b[i].status = FREE /\ b[i + 1].status = FREE)}

InitBf ==
  /\ ds = [start |-> DsBase, brk |-> DsBase, pagesize |-> DsPageSize,
           limit |-> DsBase + MaxChunks * CHUNKSIZE]
  /\ mem = <<>>
  /\ ds_heap_start = NULL
  /\ ds_heap_brk = NULL
  /\ heap_start = NULL
  /\ heap_end = NULL
  /\ PAGESIZE = 0
  /\ get_free_block = "bf"
  /\ mm_initialized = 0
  /\ mm_loglevel = 0
  /\ nf_ptr = NULL
  /\ nf = FALSE
  /\ run = "running"
  /\ live = {}
  /\ call \in {[op |-> "heap", a1 |-> b, a2 |-> size, ret |-> 0, ext |-> 0, org |-> 0] :
                 b \in BfHeaps, size \in BfRequests}
  /\ cnt = [init |-> 0, ops |-> 0]
  /\ init_mcdonalds

\* the search runs on the heap call.a1 for the block size call.a2
BfSearch ==
  /\ call.op = "heap"
  /\ call' = [call EXCEPT !.op = "bf",
                          !.ret = bf_get_free_block_words(call.a1, call.a2)]
  /\ UNCHANGED <<ds, mem, ds_heap_start, ds_heap_brk, heap_start, heap_end, PAGESIZE,
                 get_free_block, mm_initialized, mm_loglevel, nf_ptr, nf, run, live, cnt,
                 server>>

SpecBf == InitBf /\ [][BfSearch]_vars

\* C16: for every heap and requested block size, best fit returns none
\* exactly when no FREE block has size >= the request; otherwise it
\* returns the FREE block with the smallest leftover among the FREE blocks
\* of size >= the request, the first of them when several have it
BestFitOptimal ==
  call.op = "bf" =>
    LET blocks == call.a1
        Fit == {i \in 1 .. Len(blocks) :
                  blocks[i].status = FREE /\ blocks[i].size >= call.a2}
    IN /\ call.ret = 0 <=> Fit = {}
       /\ call.ret # 0 =>
            /\ call.ret \in Fit
            /\ \A j \in Fit :
                 /\ blocks[call.ret].size <= blocks[j].size
                 /\ blocks[j].size = blocks[call.ret].size => call.ret <= j

\* ------------------------------------------------------------------------
\* Scripted runs
\* ------------------------------------------------------------------------
\* A run that follows a call sequence fixed when it starts: cnt.script is
\* the sequence, cnt.ops the number of its calls made so far.  A call is
\* allocate(n), or release of the lowest (n = 0) or the highest (n = 1)
\* payload address the caller holds.
ScriptSizes == {1, 16, 4016, 4080, 4081}

Commands ==
  [op : {"malloc"}, n : ScriptSizes] \cup [op : {"free"}, n : {0, 1}]

Scripts == [1 .. MaxScript -> Commands]

\* a pristine region that can grow by one chunk more than MaxChunks
InitScript ==
  /\ ds = [start |-> DsBase, brk |-> DsBase, pagesize |-> DsPageSize,
           limit |-> DsBase + (MaxChunks + 1) * CHUNKSIZE]
  /\ mem = <<>>
  /\ ds_heap_start = NULL
  /\ ds_heap_brk = NULL
  /\ heap_start = NULL
  /\ heap_end = NULL
  /\ PAGESIZE = 0
  /\ get_free_block = "NULL"
  /\ mm_initialized = 0
  /\ mm_loglevel = 0
  /\ nf_ptr = NULL
  /\ nf = FALSE
  /\ run = "running"
  /\ live = {}
  /\ call = NoCall
  /\ cnt \in {[init |-> 0, ops |-> 0, script |-> sc] : sc \in Scripts}
  /\ init_mcdonalds

Lowest(S) == CHOOSE x \in S : \A y \in S : x <= y

Highest(S) == CHOOSE x \in S : \A y \in S : x >= y

\* the call the script makes next
Command == cnt.script[cnt.ops + 1]

ScriptMalloc ==
  /\ mm_initialized = 1
  /\ cnt.ops < Len(cnt.script)
  /\ Command.op = "malloc"
  /\ Malloc(Command.n)

ScriptFree ==
  /\ mm_initialized = 1
  /\ cnt.ops < Len(cnt.script)
  /\ Command.op = "free"
  /\ live # {}
  /\ Free(IF Command.n = 0 THEN Lowest(live) ELSE Highest(live))

NextScript ==
  \/ Start
  \/ ScriptMalloc
  \/ ScriptFree

SpecScript == InitScript /\ [][NextScript]_vars

\* the calls of the script made so far
Made == [i \in 1 .. cnt.ops |-> cnt.script[i]]

Allocate(n) == [op |-> "malloc", n |-> n]

ReleaseLowest == [op |-> "free", n |-> 0]

ReleaseHighest == [op |-> "free", n |-> 1]

\* C17: under each policy, after init, p1 = allocate(16), p2 = allocate(16)
\* (p1 is the lower address), release(p1), the block sequence starts with
\* one 32-byte FREE block followed by one 32-byte ALLOCATED block; after
\* release(p2) as well, one single FREE block starts at heap_start, spans
\* both blocks, and no ALLOCATED block is left
ScenarioA ==
  mm_initialized = 1 =>
    /\ Made = <<Allocate(16), Allocate(16)>> =>
         /\ run = "running"
         /\ Cardinality(live) = 2
         /\ call.ret = Highest(live)
    /\ Made = <<Allocate(16), Allocate(16), ReleaseLowest>> =>
         /\ run = "running"
         /\ Len(Blocks) >= 2
         /\ Blocks[1] = heap_start
         /\ FreeBlockAt(mem, heap_start, 32)
         /\ Blocks[2] = heap_start + 32
         /\ AllocBlockAt(mem, heap_start + 32, 32)
         /\ live = {NEXT_PTR(heap_start + 32)}
    /\ Made = <<Allocate(16), Allocate(16), ReleaseLowest, ReleaseHighest>> =>
         /\ run = "running"
         /\ Blocks[1] = heap_start
         /\ GET_STATUS(mem, heap_start) = FREE
         /\ GET_SIZE(mem, heap_start) >= 64
         /\ \A i \in 1 .. Len(Blocks) : GET_STATUS(mem, Blocks[i]) = FREE
         /\ Len(Blocks) = 1
         /\ live = {}

\* C17 witness: the four calls of the scenario have been made under the
\* next-fit policy
ScenarioADone ==
  /\ Quiescent
  /\ nf
  /\ Made = <<Allocate(16), Allocate(16), ReleaseLowest, ReleaseHighest>>
  /\ GET_SIZE(mem, heap_start) = heap_end - heap_start

\* C18: after init and one allocation whose block takes the whole initial
\* FREE block, a further allocate of any positive size makes exactly one
\* heap extension (one grow call to the provider) and then succeeds
ScenarioB ==
  (mm_initialized = 1 /\ cnt.ops = 2 /\ Made[1] = Allocate(4016)
   /\ Made[2].op = "malloc") =>
    /\ run = "running"
    /\ call.ret # NULL
    /\ call.ext = 1
    /\ ds.brk = DsBase + 2 * CHUNKSIZE

\* C18, amended: the first allocation takes the whole initial FREE block
\* without an extension; a further allocate of n bytes, 0 < n <=
\* CHUNKSIZE - 16, makes exactly one heap extension and succeeds; a larger
\* request makes as many extensions as its block size needs chunks
ScenarioBUpToChunk ==
  (mm_initialized = 1 /\ cnt.ops >= 1 /\ Made[1] = Allocate(4016)) =>
    /\ cnt.ops = 1 =>
         /\ run = "running"
         /\ call.ext = 0
         /\ AllocBlockAt(mem, heap_start, heap_end - heap_start)
    /\ (cnt.ops = 2 /\ Made[2].op = "malloc") =>
         /\ run = "running"
         /\ call.ret # NULL
         /\ GET_STATUS(mem, HDRP(call.ret)) = ALLOC
         /\ call.ext = (RoundUp(Made[2].n) + CHUNKSIZE - 1) \div CHUNKSIZE
         /\ Made[2].n <= CHUNKSIZE - 2 * TYPE_SIZE => call.ext = 1
         /\ ds.brk = DsBase + (1 + call.ext) * CHUNKSIZE

\* C18 witness: with the initial block taken, allocate(1) returned after
\* one extension
ScenarioBDone ==
  /\ Quiescent
  /\ cnt.ops = 2
  /\ Made = <<Allocate(4016), Allocate(1)>>
  /\ call.ret # NULL
  /\ call.ext = 1

\* ------------------------------------------------------------------------
\* Initialization
\* ------------------------------------------------------------------------
\* C19: init(policy) ends the process, leaves the initialized flag unset
\* and writes no tag, when the provider reports no region, when the region
\* is not pristine, when the page size is 0, when the initial grow call
\* fails, and when the policy is none of FirstFit, NextFit, BestFit
InitFailsCleanly ==
  [][ (call'.op = "init" /\ cnt'.init = cnt.init + 1 /\ mm_initialized = 0
       /\ \/ ds.start = NULL
          \/ ds.start # ds.brk
          \/ ds.pagesize = 0
          \/ ds.brk + CHUNKSIZE > ds.limit
          \/ call'.a1 \notin {"ap_FirstFit", "ap_NextFit", "ap_BestFit"}) =>
        /\ run' = "panic"
        /\ mm_initialized' = 0
        /\ mem' = mem
        /\ heap_start' = heap_start
        /\ heap_end' = heap_end ]_vars

\* C19 witness: init ended the process because the page size is 0
InitRefusedPageSize ==
  /\ run = "panic"
  /\ call.op = "init"
  /\ call.a1 = "ap_BestFit"
  /\ ds.pagesize = 0
  /\ ds.start = ds.brk
  /\ ds.start # NULL
  /\ mm_initialized = 0

\* init may be called at any time, any number of times, between allocate
\* and release calls
AnyInit == \E ap \in Policies : mm_init(ap)

NextReinit ==
  \/ AnyInit
  \/ cnt.ops < MaxOps /\ \E size \in NoopSizes : Malloc(size)
  \/ cnt.ops < MaxOps /\ \E bp \in live : Free(bp)

SpecReinit == Init /\ [][NextReinit]_vars

\* C20: after one successful init, every later init(policy), with any
\* policy and after any other calls, ends the process; it does not create
\* the heap again and rewrites no tag
SecondInitFatal ==
  [][ (call'.op = "init" /\ cnt'.init = cnt.init + 1 /\ mm_initialized = 1) =>
        /\ run' = "panic"
        /\ mem' = mem
        /\ ds' = ds
        /\ heap_start' = heap_start
        /\ heap_end' = heap_end
        /\ nf_ptr' = nf_ptr ]_vars

\* C20 witness: a second init, with a valid policy, ended the process on a
\* heap that holds a live allocation
SecondInitPanicked ==
  /\ run = "panic"
  /\ call.op = "init"
  /\ call.a1 = "ap_FirstFit"
  /\ cnt.init = 2
  /\ mm_initialized = 1
  /\ live # {}

\* ------------------------------------------------------------------------
\* Diagnostics
\* ------------------------------------------------------------------------
\* the test of mm_check on a block's header and footer words
check_differs(hdr, ftr) ==
  SIZE(hdr) # SIZE(ftr) \/ STATUS(hdr) # STATUS(ftr)

\* the loop of mm_check from p with the error count so far: the pointer and
\* the error count it ends with
RECURSIVE check_loop(_, _, _, _)
check_loop(m, he, p, errors) ==
  IF p >= he THEN [p |-> p, errors |-> errors]
  ELSE LET hdr == GET(m, p)
           size == SIZE(hdr)
           fp == p + size - TYPE_SIZE
           ftr == GET(m, fp)
           e == IF check_differs(hdr, ftr) THEN errors + 1 ELSE errors
       IN IF size = 0 THEN [p |-> p + size, errors |-> e]
          ELSE check_loop(m, he, p + size, e)

check_verdict_noerrors(w, he) ==
  w.p = he

\* the end of the loop w: "Block structure coherent." is printed or not
check_verdict(w, he) ==
  w.p = he /\ w.errors = 0

mm_check(m, hs, he) ==
  check_verdict(check_loop(m, he, hs, 0), he)

SetLogLevel(level) ==
  /\ run = "running"
  /\ cnt' = [cnt EXCEPT !.ops = @ + 1]
  /\ mm_loglevel' = level
  /\ Done("setloglevel", level, 0, 0, 0)
  /\ UNCHANGED <<ds, mem, ds_heap_start, ds_heap_brk, heap_start, heap_end, PAGESIZE,
                 get_free_block, mm_initialized, nf_ptr, nf, run, live, server>>

\* the call records the verdict: 1 for coherent, 0 for not
Check ==
  /\ run = "running"
  /\ cnt' = [cnt EXCEPT !.ops = @ + 1]
  /\ IF mm_initialized = 0
     THEN Abort /\ Done("check", 0, 0, 0, 0)
     ELSE /\ Done("check", 0, 0,
                  IF mm_check(mem, heap_start, heap_end) THEN 1 ELSE 0, 0)
          /\ UNCHANGED <<ds, mem, ds_heap_start, ds_heap_brk, heap_start, heap_end,
                         PAGESIZE, get_free_block, mm_initialized, mm_loglevel,
                         nf_ptr, nf, run, live, server>>

\* every exposed operation, before and after init
DiagSizes == {16, 24}

LogLevels == {2}

NextDiag ==
  \/ Start
  \/ cnt.ops < MaxOpsDeep /\ \E size \in DiagSizes : Malloc(size)
  \/ cnt.ops < MaxOpsDeep /\ \E c \in CallocArgs : Calloc(c[1], c[2])
  \/ cnt.ops < MaxOpsDeep /\ \E bp \in live \cup {NULL} : Realloc(bp, 0)
  \/ cnt.ops < MaxOpsDeep /\ \E bp \in live \cup {NULL} : Free(bp)
  \/ cnt.ops < MaxOpsDeep /\ \E level \in LogLevels : SetLogLevel(level)
  \/ cnt.ops < MaxOpsDeep /\ Check

SpecDiag == Init /\ [][NextDiag]_vars

\* C21: a call of allocate, allocateZeroed, resize, release,
\* setDiagnosticLevel or checkConsistency before a successful init ends the
\* process and changes no allocator state
UninitializedCallsFatal ==
  [][ (mm_initialized = 0 /\ cnt'.ops = cnt.ops + 1
       /\ call'.op \in {"malloc", "calloc", "realloc", "free", "setloglevel", "check"}) =>
        /\ run' # "running"
        /\ UNCHANGED <<ds, mem, ds_heap_start, ds_heap_brk, heap_start, heap_end,
                       PAGESIZE, get_free_block, mm_initialized, mm_loglevel,
                       nf_ptr, nf>> ]_vars

\* every block of the walk w has a footer whose size and status are those
\* of its header, and the walk ends exactly at he
Coherent(m, w, he) ==
  /\ \A i \in 1 .. Len(w) :
       /\ FooterOf(m, w[i]) \in DOMAIN m
       /\ GET_SIZE(m, FooterOf(m, w[i])) = GET_SIZE(m, w[i])
       /\ GET_STATUS(m, FooterOf(m, w[i])) = GET_STATUS(m, w[i])
  /\ w # <<>>
  /\ w[Len(w)] + GET_SIZE(m, w[Len(w)]) = he

\* C22: checkConsistency reports the heap coherent exactly when every block
\* met on the walk from heap_start by header sizes has a footer with the
\* header's size and status and the walk ends exactly at heap_end; the call
\* returns and changes no heap state
CheckVerdict ==
  [][ Called("check") =>
        /\ call'.ret = 1 <=> Coherent(mem, Blocks, heap_end)
        /\ call'.ret \in {0, 1}
        /\ run' = "running"
        /\ UNCHANGED <<mem, ds, ds_heap_start, ds_heap_brk, heap_start, heap_end,
                       PAGESIZE, get_free_block, mm_initialized, nf_ptr, nf, live>> ]_vars

\* C22 witness: checkConsistency reported a heap of several blocks as not
\* coherent
CheckFoundError ==
  /\ Quiescent
  /\ call.op = "check"
  /\ call.ret = 0
  /\ Len(Blocks) > 1

\* ------------------------------------------------------------------------
\* Initialization on regions of any alignment
\* ------------------------------------------------------------------------
\* the region starts up to MaxOffset bytes after a page boundary
MaxOffset == 31

\* pristine regions, with room for the initial chunk
AlignedProviders ==
  { [start |-> DsBase + off, brk |-> DsBase + off, pagesize |-> DsPageSize,
     limit |-> DsBase + off + MaxChunks * CHUNKSIZE] : off \in 0 .. MaxOffset }

InitAligned ==
  /\ ds \in AlignedProviders
  /\ mem = <<>>
  /\ ds_heap_start = NULL
  /\ ds_heap_brk = NULL
  /\ heap_start = NULL
  /\ heap_end = NULL
  /\ PAGESIZE = 0
  /\ get_free_block = "NULL"
  /\ mm_initialized = 0
  /\ mm_loglevel = 0
  /\ nf_ptr = NULL
  /\ nf = FALSE
  /\ run = "running"
  /\ live = {}
  /\ call = NoCall
  /\ cnt = [init |-> 0, ops |-> 0]
  /\ init_mcdonalds

SpecAligned == InitAligned /\ [][Start]_vars

\* C23: after a successful init(policy) on a pristine region, heap_start
\* and heap_end are multiples of 32 with heap_start < heap_end, the block
\* sequence is exactly one FREE block of size heap_end - heap_start whose
\* header and footer agree, and under NextFit the cursor equals heap_start
InitialHeap ==
  (mm_initialized = 1 /\ call.op = "init") =>
    /\ run = "running"
    /\ heap_start % 32 = 0
    /\ heap_end % 32 = 0
    /\ heap_start < heap_end
    /\ Blocks = <<heap_start>>
    /\ FreeBlockAt(mem, heap_start, heap_end - heap_start)
    /\ call.a1 = "ap_NextFit" => nf_ptr = heap_start

\* C23 witness: init under NextFit on a region that does not start on a
\* multiple of 32
InitializedUnaligned ==
  /\ Quiescent
  /\ call.op = "init"
  /\ call.a1 = "ap_NextFit"
  /\ ds.start % 32 = 17
  /\ nf_ptr = heap_start

\* ------------------------------------------------------------------------
\* Growth of the heap
\* ------------------------------------------------------------------------
\* every operation that works on the heap, checkConsistency included
NextGrow ==
  \/ Start
  \/ cnt.ops < MaxOps /\ \E size \in MallocSizes : Malloc(size)
  \/ cnt.ops < MaxOps /\ \E c \in CallocArgs : Calloc(c[1], c[2])
  \/ cnt.ops < MaxOps /\ \E bp \in live \cup {NULL}, size \in ReallocSizes : Realloc(bp, size)
  \/ cnt.ops < MaxOps /\ \E bp \in live : Free(bp)
  \/ cnt.ops < MaxOps /\ Check

SpecGrow == Init /\ [][NextGrow]_vars

\* the number of bytes the allocation of the call c asks for
Requested(c) ==
  CASE c.op = "malloc" -> c.a1
    [] c.op = "calloc" -> c.a1 * c.a2
    [] c.op = "realloc" -> c.a2
    [] OTHER -> 0

\* C24: after init, heap_start never changes and heap_end never decreases;
\* heap_end changes only inside an allocate, an allocateZeroed or a resize
\* that allocates, whose free-block search returned none, and then by whole
\* chunks; release, a resize that returns its argument and checkConsistency
\* leave heap_end unchanged
HeapOnlyGrows ==
  [][ mm_initialized = 1 =>
        /\ heap_start' = heap_start
        /\ heap_end' >= heap_end
        /\ heap_end' # heap_end =>
             /\ call'.op \in {"malloc", "calloc", "realloc"}
             /\ call'.op = "realloc" => call'.ret # call'.a1
             /\ call'.ext > 0
             /\ heap_end' = heap_end + call'.ext * CHUNKSIZE
             /\ find_block(Heap, RoundUp(Requested(call'))).addr = NULL
        /\ call'.op \in {"free", "check", "init"} => heap_end' = heap_end
        /\ (call'.op = "realloc" /\ call'.ret = call'.a1) => heap_end' = heap_end ]_vars

\* C24 witness: an allocate extended the heap by one chunk, and the release
\* of its block left heap_end where the extension had put it
GrownHeapKept ==
  /\ Quiescent
  /\ call.op = "free"
  /\ call.org > heap_end - heap_start - CHUNKSIZE
  /\ heap_end = init_heap_end(DsBase + 2 * CHUNKSIZE)
  /\ GET_STATUS(mem, heap_start) = FREE

\* ------------------------------------------------------------------------
\* Free block search
\* ------------------------------------------------------------------------
\* requested block sizes the searches are tried with on every heap
SearchSizes == {0, 32, 64, 4000, 4064, 8128}

\* headers of the FREE blocks of the walk w whose size is >= size
Fitting(m, w, size) ==
  {w[i] : i \in {j \in 1 .. Len(w) :
                   GET_STATUS(m, w[j]) = FREE /\ GET_SIZE(m, w[j]) >= size}}

\* C25: on every heap and for every requested block size, first fit
\* returns the lowest-address FREE block whose size is >= the request,
\* returns none exactly when there is no such block between heap_start and
\* heap_end, and leaves the cursor (its only output besides the block) alone
FirstFitLowest ==
  Quiescent =>
    \A size \in SearchSizes :
      LET r == ff_get_free_block(Heap, size)
          F == Fitting(mem, Blocks, size)
      IN /\ r.addr = NULL <=> F = {}
         /\ F # {} => (r.addr \in F /\ \A p \in F : r.addr <= p)
         /\ r.nfp = nf_ptr

\* C25 witness: under first fit an allocate was placed behind a FREE block
\* that was too small for it
FirstFitSkipped ==
  /\ Quiescent
  /\ get_free_block = "ff"
  /\ call.op = "malloc"
  /\ call.ret # NULL
  /\ \E i \in 1 .. Len(Blocks) :
       /\ Blocks[i] < HDRP(call.ret)
       /\ GET_STATUS(mem, Blocks[i]) = FREE
       /\ GET_SIZE(mem, Blocks[i]) < GET_SIZE(mem, HDRP(call.ret))

\* the blocks of the walk w in circular address order from its c-th block
Circular(w, c) ==
  [k \in 1 .. Len(w) |-> w[((c + k - 2) % Len(w)) + 1]]

\* the first block of the sequence ord that is FREE with size >= size
FirstFitting(m, ord, size) ==
  LET K == {k \in 1 .. Len(ord) :
              GET_STATUS(m, ord[k]) = FREE /\ GET_SIZE(m, ord[k]) >= size}
  IN IF K = {} THEN NULL ELSE ord[CHOOSE k \in K : \A j \in K : k <= j]

\* next fit on the heap with the blocks w, from the cursor position cur =
\* w[c], for the requested block size
NextFitFrom(m, w, he, c, size) ==
  LET cur == w[c]
      r == nf_walk(m, he, cur, cur, size)
      seen == nf_examined(m, he, cur, cur, size)
  IN /\ r # HANG
     /\ r = FirstFitting(m, Circular(w, c), size)
     /\ r = NULL <=> Fitting(m, w, size) = {}
     /\ \A i, j \in 1 .. Len(seen) : seen[i] = seen[j] => i = j
     /\ \A i \in 1 .. Len(seen) : \E k \in 1 .. Len(w) : seen[i] = w[k]

NextFitOn(m, w, he) ==
  \A c \in 1 .. Len(w), size \in SearchSizes : NextFitFrom(m, w, he, c, size)

\* C26: on every heap, for every cursor position on a block of the heap
\* and every requested block size, next fit terminates, reads the header
\* of no block twice, returns the first FREE block of size >= the request
\* in circular address order from the cursor's block, and returns none
\* exactly when no FREE block of size >= the request exists in the heap
NextFitCircular ==
  Quiescent => NextFitOn(mem, Blocks, heap_end)

\* C26 witness: under next fit an allocate found its block only after the
\* search had wrapped from heap_end to heap_start: the block lies below
\* the block the cursor was on, which is still ALLOCATED
NextFitWrapped ==
  /\ Quiescent
  /\ nf
  /\ call.op = "malloc"
  /\ call.ret # NULL
  /\ nf_ptr = HDRP(call.ret)
  /\ \E bp \in live : bp > call.ret
  /\ \A i \in 1 .. Len(Blocks) :
       Blocks[i] > nf_ptr => GET_STATUS(mem, Blocks[i]) = ALLOC

\* C27: under NextFit the cursor is, after a successful search, the header
\* address of the block found, which is the block allocate then allocates,
\* and after a search that returns none it is unchanged; under FirstFit
\* and BestFit no operation writes the cursor
CursorFollowsSearch ==
  [][ /\ Quiescent =>
           \A size \in SearchSizes :
             LET r == nf_get_free_block(Heap, size)
             IN nf => (r.addr # HANG
                       /\ r.nfp = IF r.addr = NULL THEN nf_ptr ELSE r.addr)
      /\ (nf /\ (Returned("malloc") \/ Returned("calloc")) /\ call'.ret # NULL) =>
           nf_ptr' = HDRP(call'.ret)
      /\ (nf /\ Returned("realloc") /\ call'.a2 > 0 /\ call'.ret # call'.a1) =>
           nf_ptr' = HDRP(call'.ret)
      /\ get_free_block' \in {"ff", "bf"} => nf_ptr' = nf_ptr ]_vars

\* C27 witness: under next fit the first search of an allocate returned
\* none, the heap was extended, and the cursor is on the block the second
\* search found, which is not the block it was on before
CursorAfterExtension ==
  /\ Quiescent
  /\ nf
  /\ call.op = "malloc"
  /\ call.ext = 1
  /\ nf_ptr = HDRP(call.ret)
  /\ nf_ptr # heap_start

\* ------------------------------------------------------------------------
\* Coalescing, splitting, extension
\* ------------------------------------------------------------------------
\* the memory m with the tags of the block at bp rewritten as FREE, as
\* mm_free leaves it when it calls coalesce
Released(m, bp) ==
  LET size == GET_SIZE(m, HDRP(bp))
  IN PUT(PUT(m, HDRP(bp), PACK(size, FREE)), HDRP(bp) + size - TYPE_SIZE, PACK(size, FREE))

\* coalesce on the FREE block w[i] of the heap m, whose neighbours are the
\* blocks w[i - 1] and w[i + 1] of the walk or the sentinels; c is what
\* coalesce returns
CoalesceCases(m, w, he, i, c) ==
  LET hdr == w[i]
      size == GET_SIZE(m, hdr)
      prevFree == i > 1 /\ GET_STATUS(m, w[i - 1]) = FREE
      nextFree == i < Len(w) /\ GET_STATUS(m, w[i + 1]) = FREE
      psize == IF prevFree THEN GET_SIZE(m, w[i - 1]) ELSE 0
      nsize == IF nextFree THEN GET_SIZE(m, w[i + 1]) ELSE 0
      start == IF prevFree THEN w[i - 1] ELSE hdr
  IN /\ c.bp = NEXT_PTR(start)
     /\ FreeBlockAt(c.mem, start, psize + size + nsize)
     /\ (~prevFree /\ ~nextFree) => c.mem = m
     /\ DOMAIN c.mem = DOMAIN m
     /\ \A a \in DOMAIN m :
          a \notin {start, start + psize + size + nsize - TYPE_SIZE} => c.mem[a] = m[a]
     /\ SumSizes(c.mem, Walk(c.mem, he, heap_start)) = SumSizes(m, w)

CoalesceOn(m, w, he, bp) ==
  \A i \in 1 .. Len(w) :
    w[i] = HDRP(bp) => CoalesceCases(m, w, he, i, coalesce(m, bp))

SplitCases(h0, w0, hdr, B, m1, w1) ==
  LET S == GET_SIZE(h0.mem, hdr)
  IN /\ FreeBlockAt(h0.mem, hdr, S)
     /\ S >= B
     /\ AllocBlockAt(m1, hdr, B)
     /\ S > B =>
          /\ S - B >= 32
          /\ FreeBlockAt(m1, hdr + B, S - B)
          /\ GET_STATUS(m1, hdr + S) # FREE
          /\ Len(w1) = Len(w0) + 1
     /\ S = B => Len(w1) = Len(w0)
     /\ SumSizes(m1, w1) = SumSizes(h0.mem, w0)
     /\ \A i \in 1 .. Len(w0) : w0[i] # hdr => h0.mem[w0[i]] = m1[w0[i]]

\* the search and extension loop of the allocate call left the heap l.h
SplitAfter(l, hdr, B, m1, w1) ==
  /\ l.addr = hdr
  /\ SplitCases(l.h, Walk(l.h.mem, l.h.he, heap_start), hdr, B, m1, w1)

ExtendCases(h, w, e, v) ==
  LET last == w[Len(w)]
      lastFree == GET_STATUS(h.mem, last) = FREE
      start == IF lastFree THEN last ELSE h.he
      size == CHUNKSIZE + (IF lastFree THEN GET_SIZE(h.mem, last) ELSE 0)
  IN /\ e.he = h.he + CHUNKSIZE
     /\ e.d.brk = h.d.brk + CHUNKSIZE
     /\ GET_STATUS(e.mem, h.he) = FREE
     /\ e.he \in DOMAIN e.mem
     /\ e.mem[e.he] = PACK(0, ALLOC)
     /\ v[Len(v)] = start
     /\ FreeBlockAt(e.mem, start, size)
     /\ start + size = e.he
     /\ Len(v) = IF lastFree THEN Len(w) ELSE Len(w) + 1
     /\ \A i \in 1 .. Len(v) - 1 : v[i] = w[i] /\ e.mem[v[i]] = h.mem[w[i]]
     /\ \A i \in 1 .. Len(v) - 1 :
          ~(GET_STATUS(e.mem, v[i]) = FREE /\ GET_STATUS(e.mem, v[i + 1]) = FREE)

ExtendOn(h, w, e) ==
  e.st = "ok" => ExtendCases(h, w, e, Walk(e.mem, e.he, heap_start))

\* C30: every extend_heap call for one chunk that the provider grants
\* raises heap_end by exactly the chunk size, makes the old end sentinel
\* FREE space, writes a (0, ALLOCATED) end sentinel at the new heap_end,
\* and leaves the heap ending in exactly one FREE block, of the chunk size
\* plus the size of the block that was last if that block was FREE; no two
\* adjacent blocks are FREE when it returns.  The call is made on every
\* heap that allocate and release calls build
ExtendByChunk ==
  Quiescent => ExtendOn(Heap, Blocks, extend_heap(Heap, CHUNKSIZE))

\* C30 witness: an allocate extended a heap whose last block was FREE but
\* too small; its block lies across the place of the old end sentinel
ExtendedOverSentinel ==
  /\ Quiescent
  /\ call.op = "malloc"
  /\ call.ext = 1
  /\ HDRP(call.ret) < heap_end - CHUNKSIZE
  /\ HDRP(call.ret) + RoundUp(call.a1) > heap_end - CHUNKSIZE
  /\ AllocBlockAt(mem, HDRP(call.ret), RoundUp(call.a1))

\* ------------------------------------------------------------------------
\* The retry loop of allocate
\* ------------------------------------------------------------------------
\* size of the last block of the walk w if that block is FREE, 0 otherwise
LastFree(m, w) ==
  IF w # <<>> /\ GET_STATUS(m, w[Len(w)]) = FREE
  THEN GET_SIZE(m, w[Len(w)]) ELSE 0

\* the least k >= 1 with T + k * chunk >= B
LeastChunks(T, B) ==
  CHOOSE k \in 1 .. (B \div CHUNKSIZE) + 1 :
    /\ T + k * CHUNKSIZE >= B
    /\ \A j \in 1 .. k - 1 : T + j * CHUNKSIZE < B

\* allocate, called on the heap h with the walk w for the block size B when
\* its first search returned first, made ext extensions and ended as how
RetryCount(h, w, B, first, ext, how) ==
  IF first.addr # NULL
  THEN ext = 0 /\ how = "running"
  ELSE LET k == LeastChunks(LastFree(h.mem, w), B)
       IN IF how = "running" THEN ext = k ELSE how = "panic" /\ ext < k

\* C31: when the first search of allocate returns none for the block size
\* B, a returning allocate has extended the heap exactly k times, k the
\* least number >= 1 with T + k * chunk >= B and T the size of the last
\* block if it is FREE, else 0 (an allocate the provider refuses ends the
\* process after fewer than k extensions); allocate extends nothing when
\* its first search finds a block
RetryLoop ==
  [][(Quiescent /\ cnt'.ops = cnt.ops + 1 /\ call'.op = "malloc")
       => RetryCount(Heap, Blocks, block_size(call'.a1),
                     find_block(Heap, block_size(call'.a1)), call'.ext, run')]_vars

\* C31 witness: an allocate on a heap whose last block was ALLOCATED asked
\* for more than one chunk and extended the heap twice
ExtendedTwice ==
  /\ Quiescent
  /\ call.op = "malloc"
  /\ call.ext = 2
  /\ RoundUp(call.a1) > CHUNKSIZE
  /\ AllocBlockAt(mem, HDRP(call.ret), RoundUp(call.a1))
  /\ HDRP(call.ret) + RoundUp(call.a1) > heap_end - CHUNKSIZE

\* ------------------------------------------------------------------------
\* Sentinels
\* ------------------------------------------------------------------------
\* the tag word at address p lies inside the provider's range and reads
\* (size 0, ALLOCATED)
SentinelAt(m, d, p) ==
  /\ d.start <= p
  /\ p + TYPE_SIZE <= d.brk
  /\ p \in DOMAIN m
  /\ m[p] = PACK(0, ALLOC)

LiveReallocSizes == {16, 48}

NextLive ==
  \/ Start
  \/ cnt.ops < MaxOps /\ \E size \in MallocSizes : Malloc(size)
  \/ cnt.ops < MaxOps /\ \E c \in CallocArgs : Calloc(c[1], c[2])
  \/ cnt.ops < MaxOps /\ \E bp \in live, size \in LiveReallocSizes : Realloc(bp, size)
  \/ cnt.ops < MaxOps /\ \E bp \in live : Free(bp)
  \/ cnt.ops < MaxOps /\ \E bp \in live, v \in DataVals : Store(bp, v)

SpecLive == Init /\ [][NextLive]_vars

\* C33: at every quiescent point after init and any sequence of allocate,
\* allocateZeroed, resize to a positive size and release calls on live
\* pointers, every block size is a multiple of 32 and at least 32, every
\* block header lies at heap_start plus a multiple of 32, and the walk from
\* heap_start by header sizes ends exactly at heap_end: the block sizes sum
\* to heap_end - heap_start
Tiling ==
  Quiescent =>
    /\ \A i \in 1 .. Len(Blocks) :
         /\ GET_SIZE(mem, Blocks[i]) % BS = 0
         /\ GET_SIZE(mem, Blocks[i]) >= BS
         /\ (Blocks[i] - heap_start) % BS = 0
    /\ Blocks # <<>>
    /\ Blocks[Len(Blocks)] + GET_SIZE(mem, Blocks[Len(Blocks)]) = heap_end
    /\ SumSizes(mem, Blocks) = heap_end - heap_start

\* C33 witness: after an extension, a split, a resize and a release the
\* heap is tiled by four blocks or more
TiledInFour ==
  /\ Quiescent
  /\ call.op = "free"
  /\ Len(Blocks) >= 4
  /\ heap_end - heap_start > CHUNKSIZE
  /\ \E i \in 1 .. Len(Blocks) - 1 :
       GET_STATUS(mem, Blocks[i]) = FREE /\ GET_STATUS(mem, Blocks[i + 1]) = ALLOC
  /\ SumSizes(mem, Blocks) = heap_end - heap_start

\* the payload of the block with payload address bp ends before this address
PayloadEnd(m, bp) == bp + GET_SIZE(m, HDRP(bp)) - 2 * TYPE_SIZE

\* bp is the payload address of an ALLOCATED block of the walk w
LiveBlock(m, w, bp) ==
  \E i \in 1 .. Len(w) : w[i] = HDRP(bp) /\ GET_STATUS(m, w[i]) = ALLOC

\* C34: after any sequence of allocate, allocateZeroed, resize to a
\* positive size and release calls on live pointers, every pointer that was
\* returned and not released since is the payload address of an ALLOCATED
\* block of the walk, its payload lies inside [heap_start, heap_end), and
\* the payloads of two such pointers do not overlap
DisjointLive ==
  Quiescent =>
    /\ \A bp \in live :
         /\ LiveBlock(mem, Blocks, bp)
         /\ heap_start <= bp
         /\ bp < PayloadEnd(mem, bp)
         /\ PayloadEnd(mem, bp) <= heap_end
    /\ \A a \in live : \A b \in live :
         a < b => PayloadEnd(mem, a) <= b

\* ------------------------------------------------------------------------
\* The next-fit cursor between calls
\* ------------------------------------------------------------------------
\* p is the header address of a block of the walk w
HeaderOf(w, p) == \E i \in 1 .. Len(w) : w[i] = p

\* C35: under NextFit, at every quiescent point the cursor is the header
\* address of a block of the block sequence, heap_start or the header of an
\* ALLOCATED block; it never points into the interior of a block or at
\* heap_end
CursorValid ==
  (Quiescent /\ nf) =>
    /\ HeaderOf(Blocks, nf_ptr)
    /\ nf_ptr # heap_end
    /\ nf_ptr = heap_start \/ GET_STATUS(mem, nf_ptr) = ALLOC

\* ------------------------------------------------------------------------
\* What a call leaves alone
\* ------------------------------------------------------------------------
\* payload addresses of the ALLOCATED blocks of the walk w
AllocatedSet(m, w) ==
  {NEXT_PTR(w[i]) : i \in {j \in 1 .. Len(w) : GET_STATUS(m, w[j]) = ALLOC}}

\* word addresses of the block with payload address bp: header, payload, footer
WordsOf(m, bp) ==
  {HDRP(bp) + TYPE_SIZE * i : i \in 0 .. (GET_SIZE(m, HDRP(bp)) \div TYPE_SIZE) - 1}

\* the block at bp reads the same in m1 as in m0, tags and payload
SameBlock(m0, m1, bp) ==
  \A a \in WordsOf(m0, bp) :
    /\ a \in DOMAIN m0 <=> a \in DOMAIN m1
    /\ a \in DOMAIN m0 => m1[a] = m0[a]

\* the pointer a call gives up, and the pointer it hands out
GivenUp(c) == IF c.op \in {"realloc", "free"} THEN {c.a1} \ {NULL} ELSE {}

HandedOut(c) == IF c.op = "free" THEN {} ELSE {c.ret} \ {NULL}

\* C36: allocate, allocateZeroed, release and resize to a positive size
\* change neither the address, the size, the status nor the payload of a
\* live allocated block other than the one passed as argument, and the
\* ALLOCATED blocks after the call are those before it, without the block
\* that was released or moved and with the block that was returned
FrameOnOthers ==
  [][(Quiescent /\ cnt'.ops = cnt.ops + 1 /\ run' = "running"
        /\ call'.op \in {"malloc", "calloc", "realloc", "free"}
        /\ (call'.op = "realloc" => call'.a2 > 0))
       => /\ \A bp \in live \ GivenUp(call') : SameBlock(mem, mem', bp)
          /\ AllocatedSet(mem', Blocks')
               = (AllocatedSet(mem, Blocks) \ GivenUp(call')) \cup HandedOut(call')]_vars

\* ------------------------------------------------------------------------
\* Allocate followed by release
\* ------------------------------------------------------------------------
\* the block sequence of the heap h: address, size and status of each block
Sequence(h) ==
  LET w == Walk(h.mem, h.he, heap_start)
  IN [i \in 1 .. Len(w) |->
        <<w[i], GET_SIZE(h.mem, w[i]), GET_STATUS(h.mem, w[i])>>]

\* p = allocate(n) returned r on the heap h: release(p) restores h
RoundTrip(h, r) ==
  (r.h.st = "ok" /\ r.ext = 0) =>
    \E f \in {mm_free(r.h, r.ret)} :
      /\ f.he = h.he
      /\ Sequence(f) = Sequence(h)

\* C37: from every reachable quiescent state in which allocate(n) needs no
\* heap extension, p = allocate(n) followed by release(p) restores the
\* block sequence (address, size and status of every block) and heap_end,
\* under each of the three policies
AllocateReleaseRoundTrip ==
  Quiescent => \A n \in MallocSizes : RoundTrip(Heap, mm_malloc(Heap, n))

\* ------------------------------------------------------------------------
\* Order server (unnamed/part_002): serve_client and kitchen_task, one
\* action per critical section or blocking point.  A critical section is
\* one step: every variable it writes is read by other threads either
\* under the same mutex or in a single unlocked read.
\* ------------------------------------------------------------------------
\* the variables of the memory manager, which the order server never touches
memmgr == <<ds, mem, ds_heap_start, ds_heap_brk, heap_start, heap_end, PAGESIZE,
            get_free_block, mm_initialized, mm_loglevel, nf_ptr, nf, run, live, call, cnt>>

\* a >= b on unsigned int, for b >= 0; a value written -k stands for
\* 2^32 - k, what a decrement below zero leaves
uint_ge(a, b) == a < 0 \/ a >= b

\* thread c of serve_client moves on to the statement at pc
Goto(c, pc) == client' = [client EXCEPT ![c] = pc]

\* serve_client: deny the customer if the queue is full
Admit(c) ==
  /\ client[c] = "admit"
  /\ IF uint_ge(server_ctx.total_queueing, CUSTOMER_MAX)
     THEN Goto(c, "done")
     ELSE Goto(c, "enter")
  /\ UNCHANGED <<server_ctx, node, kitchen, memmgr>>

\* serve_client: total_queueing++ in a critical section of its own
Enter(c) ==
  /\ client[c] = "enter"
  /\ server_ctx' = [server_ctx EXCEPT !.total_queueing = @ + 1]
  /\ Goto(c, "visit")
  /\ UNCHANGED <<node, kitchen, memmgr>>

\* serve_client: customerID = total_customers++
Visit(c) ==
  /\ client[c] = "visit"
  /\ server_ctx' = [server_ctx EXCEPT !.total_customers = @ + 1]
  /\ Goto(c, "talk")
  /\ UNCHANGED <<node, kitchen, memmgr>>

\* serve_client: welcome the customer, read and parse the order; a failed
\* send or an unknown burger ends the thread at err
Talk(c) ==
  /\ client[c] = "talk"
  /\ \E ok \in BOOLEAN : Goto(c, IF ok THEN "issue" ELSE "done")
  /\ UNCHANGED <<server_ctx, node, kitchen, memmgr>>

\* issue_order: make the node and append it under mutex_ht
IssueHt(c) ==
  /\ client[c] = "issue"
  /\ IF server_ctx.tail = NULL
     THEN /\ server_ctx' = [server_ctx EXCEPT !.head = c, !.tail = c]
          /\ node' = [node EXCEPT ![c] = NewNode]
     ELSE /\ server_ctx' = [server_ctx EXCEPT !.tail = c]
          /\ node' = [node EXCEPT ![c] = NewNode, ![server_ctx.tail].next = c]
  /\ Goto(c, "issue_lc")
  /\ UNCHANGED <<kitchen, memmgr>>

\* issue_order: list.count++ under mutex_lc, return
IssueLc(c) ==
  /\ client[c] = "issue_lc"
  /\ server_ctx' = [server_ctx EXCEPT !.count = @ + 1]
  /\ Goto(c, "lock")
  /\ UNCHANGED <<node, kitchen, memmgr>>

\* serve_client: lock order->mutex and block in pthread_cond_wait, whatever
\* is_ready says
Wait(c) ==
  /\ client[c] = "lock"
  /\ Goto(c, "waiting")
  /\ UNCHANGED <<server_ctx, node, kitchen, memmgr>>

\* pthread_cond_wait returns: the condition was signalled while the thread
\* was blocked in it
Resume(c) ==
  /\ client[c] = "waiting"
  /\ node[c].signalled
  /\ Goto(c, "resumed")
  /\ UNCHANGED <<server_ctx, node, kitchen, memmgr>>

\* serve_client: hand the burger over if is_ready, free the order, leave
Leave(c) ==
  /\ client[c] = "resumed"
  /\ Goto(c, "done")
  /\ UNCHANGED <<server_ctx, node, kitchen, memmgr>>

\* kitchen_task: the loop test and the unlocked test of get_order; with an
\* empty list get_order returns NULL and the thread sleeps and tries again
Poll(k) ==
  /\ kitchen[k].pc = "poll"
  /\ kitchen' = [kitchen EXCEPT ![k].pc =
                   IF server_ctx.head = NULL THEN "poll" ELSE "get_ht"]
  /\ UNCHANGED <<server_ctx, node, client, memmgr>>

\* get_order: take the head under mutex_ht
GetHt(k) ==
  LET target_node == server_ctx.head
  IN /\ kitchen[k].pc = "get_ht"
     /\ server_ctx' =
          IF server_ctx.head = server_ctx.tail
          THEN [server_ctx EXCEPT !.head = NULL, !.tail = NULL]
          ELSE [server_ctx EXCEPT !.head = node[server_ctx.head].next]
     /\ node' = IF target_node = NULL THEN node
                ELSE [node EXCEPT ![target_node].got = @ + 1]
     /\ kitchen' = [kitchen EXCEPT ![k] = [pc |-> "get_lc", order |-> target_node]]
     /\ UNCHANGED <<client, memmgr>>

\* get_order: list.count-- under mutex_lc
GetLc(k) ==
  /\ kitchen[k].pc = "get_lc"
  /\ server_ctx' = [server_ctx EXCEPT !.count = @ - 1]
  /\ kitchen' = [kitchen EXCEPT ![k].pc = "get_q"]
  /\ UNCHANGED <<node, client, memmgr>>

\* get_order: total_queueing-- under mutex_q, return target_node; without
\* an order kitchen_task sleeps and tries again
GetQ(k) ==
  /\ kitchen[k].pc = "get_q"
  /\ server_ctx' = [server_ctx EXCEPT !.total_queueing = @ - 1]
  /\ kitchen' = [kitchen EXCEPT ![k].pc =
                   IF kitchen[k].order = NULL THEN "poll" ELSE "cook"]
  /\ UNCHANGED <<node, client, memmgr>>

\* kitchen_task: make the burger, count it under mutex_b
Cook(k) ==
  /\ kitchen[k].pc = "cook"
  /\ server_ctx' = [server_ctx EXCEPT !.total_burgers = @ + 1]
  /\ kitchen' = [kitchen EXCEPT ![k].pc = "ready"]
  /\ UNCHANGED <<node, client, memmgr>>

\* kitchen_task: under order->mutex set is_ready and signal the condition;
\* the signal wakes the client only if it is blocked in the wait by now.
\* order is dead until the next get_order assigns it
Ready(k) ==
  /\ kitchen[k].pc = "ready"
  /\ node' = [node EXCEPT ![kitchen[k].order] =
                [@ EXCEPT !.is_ready = TRUE,
                          !.signalled = (client[kitchen[k].order] = "waiting")]]
  /\ kitchen' = [kitchen EXCEPT ![k] = [pc |-> "poll", order |-> NULL]]
  /\ UNCHANGED <<server_ctx, client, memmgr>>

serve_client(c) ==
  \/ Admit(c)
  \/ Enter(c)
  \/ Visit(c)
  \/ Talk(c)
  \/ IssueHt(c)
  \/ IssueLc(c)
  \/ Wait(c)
  \/ Resume(c)
  \/ Leave(c)

kitchen_task(k) ==
  \/ Poll(k)
  \/ GetHt(k)
  \/ GetLc(k)
  \/ GetQ(k)
  \/ Cook(k)
  \/ Ready(k)

NextServer ==
  \/ \E c \in Clients : Admit(c)
  \/ \E c \in Clients : Enter(c)
  \/ \E c \in Clients : Visit(c)
  \/ \E c \in Clients : Talk(c)
  \/ \E c \in Clients : IssueHt(c)
  \/ \E c \in Clients : IssueLc(c)
  \/ \E c \in Clients : Wait(c)
  \/ \E c \in Clients : Resume(c)
  \/ \E c \in Clients : Leave(c)
  \/ \E k \in Kitchens : Poll(k)
  \/ \E k \in Kitchens : GetHt(k)
  \/ \E k \in Kitchens : GetLc(k)
  \/ \E k \in Kitchens : GetQ(k)
  \/ \E k \in Kitchens : Cook(k)
  \/ \E k \in Kitchens : Ready(k)

\* the order server alone, on a memory manager that is never started
InitServer ==
  /\ Init
  /\ ds = [start |-> DsBase, brk |-> DsBase, pagesize |-> DsPageSize,
           limit |-> DsBase + MaxChunks * CHUNKSIZE]

SpecServer == InitServer /\ [][NextServer]_vars

\* every thread that can take a step eventually takes one
SpecServerFair ==
  /\ InitServer
  /\ [][NextServer]_vars
  /\ \A c \in Clients : WF_vars(serve_client(c))
  /\ \A k \in Kitchens : WF_vars(kitchen_task(k))

\* C38: under every fair interleaving of the serve_client threads and the
\* kitchen threads, once a kitchen thread has marked the order of a client
\* ready that client eventually returns from its wait, also when is_ready
\* was set and the condition signalled before the client began to wait
NoLostWakeup ==
  \A c \in Clients : node[c].is_ready ~> (client[c] \in {"resumed", "done"})

\* C39: under any interleaving of serve_client threads and kitchen threads
\* total_queueing never exceeds CUSTOMER_MAX
AdmissionBound ==
  /\ server_ctx.total_queueing >= 0
  /\ server_ctx.total_queueing <= CUSTOMER_MAX

\* the number of nodes in the list that starts at n
RECURSIVE ListLength(_)
ListLength(n) == IF n = NULL THEN 0 ELSE 1 + ListLength(node[n].next)

\* no issue_order and no get_order is in flight
NoneInFlight ==
  /\ \A c \in Clients : client[c] # "issue_lc"
  /\ \A k \in Kitchens : kitchen[k].pc \notin {"get_ht", "get_lc", "get_q"}

\* a step of a get_order that is going to return NULL
NullGetStep(k) ==
  /\ kitchen[k].pc \in {"get_lc", "get_q"}
  /\ kitchen[k].order = NULL
  /\ kitchen'[k] # kitchen[k]

\* C40: under any interleaving of issue_order calls and get_order calls of
\* several kitchen threads, every issued order is returned by get_order to
\* at most one kitchen thread; whenever no issue_order and no get_order is
\* in flight list.count is the number of nodes in the list and has not
\* wrapped below zero; a get_order that returns NULL leaves list.count and
\* total_queueing unchanged
QueueConsistency ==
  /\ [](\A c \in Clients : node[c].got <= 1)
  /\ [](NoneInFlight =>
          /\ server_ctx.count >= 0
          /\ server_ctx.count = ListLength(server_ctx.head))
  /\ [][\A k \in Kitchens :
          NullGetStep(k) =>
            /\ server_ctx'.count = server_ctx.count
            /\ server_ctx'.total_queueing = server_ctx.total_queueing]_vars

====
